---- MODULE Spec2Model ----
(***************************************************************************)
(* Traffic generators and ledger files of the WAF dataset repository.      *)
(*                                                                         *)
(* One script runs at a time against its own ledger file (prog names the   *)
(* script).  A ledger file is a sequence of CSV lines, a line a sequence   *)
(* of cells, every cell a string, as csv.DictReader and csv.DictWriter see *)
(* it.  An md5 hexdigest is modelled by the string it digests (the digest  *)
(* is taken to be collision free); a uuid4 draw by a fresh counter value.  *)
(***************************************************************************)
EXTENDS Integers, Sequences, FiniteSets, TLC

VARIABLES
    prog,             \* which script is run: "juice", "webgoat", "malicious", "dvwa"
    fs,               \* the script's LOG_CSV file: [exists, lines]
    pc,               \* "off" no process, "ready" constructed, "run" in the loop, "done"
    used_signatures,  \* the in-memory signature set of the running process
    count,            \* the count argument of the running generate call
    generated,        \* generated_count / sent of the running loop
    sessions_data,    \* Juice Shop: per session [token, basket_id]
    product_ids,      \* Juice Shop: the fetched product ids
    sent_by_method,   \* DVWA: requests logged per HTTP method in the running loop
    method_counts,    \* DVWA: the per-method targets of the running loop
    authenticated_sessions,  \* DVWA: ids of the sessions recorded as logged in
    last_auth_time,   \* DVWA: per session id, time.time() of its last login
    now,              \* DVWA: time.time()
    uuids,            \* number of uuid4 values drawn so far
    runs,             \* number of processes started on this file
    prior,            \* history: the file's lines when the running process was started
    last,             \* history: what the last call of the request function did
    parser,           \* nginx parser: the input log and parse_log_file's locals
    crawl             \* DVWA: crawled, all_endpoints, all_forms of the generator;
                      \* in runs of the crawler alone, SiteCrawler's fields

dvwaVars == <<sent_by_method, method_counts, authenticated_sessions, last_auth_time, now,
             crawl>>

vars == <<prog, fs, pc, used_signatures, count, generated, sessions_data,
          product_ids, uuids, runs, prior, last, dvwaVars, parser>>

(***************************************************************************)
(* Bounds of the model.                                                    *)
(***************************************************************************)
MaxRows == 2      \* data rows a ledger file may hold
MaxRuns == 2      \* processes started against one ledger file
MaxCount == 2     \* largest count argument of a generate call
DvwaMaxCount == 4 \* largest count argument of DVWA's generate_request_variations
DvwaMaxLost == 1  \* most DVWA reservations a run loses to failed sends
EpochStart == 1000  \* time.time() when the model starts

(***************************************************************************)
(* Python helpers.                                                         *)
(***************************************************************************)
None == "None"

RECURSIVE JoinWith(_, _)
\* sep.join(parts)
JoinWith(sep, parts) ==
    IF Len(parts) = 0 THEN ""
    ELSE IF Len(parts) = 1 THEN parts[1]
    ELSE parts[1] \o sep \o JoinWith(sep, Tail(parts))

\* The order of the keys and header names that occur, as Python orders strings.
KeyOrder == <<"Accept", "Accept-Encoding", "Accept-Language", "BasketId",
              "Cache-Control", "Connection", "Content-Type", "DNT", "ProductId",
              "Referer", "Upgrade-Insecure-Requests", "Upload", "User-Agent",
              "X-Requested-With", "name", "quantity", "seclev_submit", "security">>

KeyRank(k) == CHOOSE i \in 1..Len(KeyOrder) : KeyOrder[i] = k

\* sorted(d.items()) of a dict given as its items in insertion order: the item
\* at place i is the one with i - 1 smaller keys (the keys of a dict differ)
SortedItems(items) ==
    [i \in 1..Len(items) |->
        items[CHOOSE j \in 1..Len(items) :
                Cardinality({k \in 1..Len(items) :
                               KeyRank(items[k][1]) < KeyRank(items[j][1])}) = i - 1]]

\* str() of a list of (key, value) tuples; a value is given by its repr
StrItems(items) ==
    "[" \o JoinWith(", ", [i \in 1..Len(items) |->
                              "('" \o items[i][1] \o "', " \o items[i][2] \o ")"])
        \o "]"

\* json.dumps() of a dict of the generator (repr quotes become JSON quotes)
JsonDumps(items) ==
    "{" \o JoinWith(", ", [i \in 1..Len(items) |->
                              "\"" \o items[i][1] \o "\": " \o items[i][2]])
        \o "}"

\* hashlib.md5(s.encode()).hexdigest(), collision free
Md5(s) == "md5(" \o s \o ")"

\* str(uuid4()): the n-th draw
Uuid(n) == "uuid-" \o ToString(n)

(***************************************************************************)
(* The ledger file as the csv module reads and writes it.                  *)
(***************************************************************************)
NoFile == [exists |-> FALSE, lines |-> <<>>]

csv_headers == <<"_id", "signature", "body_bytes_sent", "ip", "request.method",
                 "request.path", "request.protocol", "request_body", "status",
                 "timestamp">>

\* csv.DictWriter(f, fieldnames=csv_headers).writerow(entry)
RowOf(entry) == <<entry.id, entry.signature, entry.body_bytes_sent, entry.ip,
                  entry.method, entry.path, entry.protocol, entry.request_body,
                  entry.status, entry.timestamp>>

\* row.get(key) of a csv.DictReader row: dict(zip(fieldnames, line)), "" when missing
DictGet(fieldnames, line, key) ==
    LET idx == {i \in 1..Len(fieldnames) : fieldnames[i] = key /\ i <= Len(line)}
    IN  IF idx = {} THEN ""
        ELSE line[CHOOSE i \in idx : \A j \in idx : j <= i]

\* The values of the file's signature column, in file order (empty without one).
SignatureColumn(f) ==
    IF Len(f.lines) = 0 \/ ~(\E i \in 1..Len(f.lines[1]) : f.lines[1][i] = "signature")
    THEN <<>>
    ELSE [r \in 1..(Len(f.lines) - 1) |-> DictGet(f.lines[1], f.lines[r + 1], "signature")]

DataRows(f) == IF Len(f.lines) = 0 THEN 0 ELSE Len(f.lines) - 1

\* An HTTP response as far as a ledger row records it.
Responses == {[status |-> "200", length |-> "512"]}

\* What a send may end in: a response, or requests.RequestException raised.
TransportError == [status |-> "error", length |-> "0"]
SendResults == Responses \cup {TransportError}

NoCall == [op |-> "none"]

\* no generator, or one that has not crawled: crawls counts the calls of
\* crawl_site
NoCrawl == [crawled |-> FALSE, all_endpoints |-> {}, all_forms |-> <<>>, crawls |-> 0]

\* no log is being parsed
NoParser == [exists |-> FALSE, lines |-> <<>>, pattern |-> "None", line_num |-> 0,
             processed_count |-> 0, error_count |-> 0]

(***************************************************************************)
(* Juice Shop generator (src/juiceshop/juice-shop.py).                     *)
(***************************************************************************)
JSSessionIds == {0, 1}            \* range(sessions), two simulated users
SearchQueries == {"apple"}        \* of the queries of generate_search_query
ProductLists == {<<>>, <<"1">>}   \* what the product search may return
JuiceActions == {"search_products", "view_product", "add_to_basket",
                 "view_basket", "view_challenges"}

JuiceInitializeFresh(f) == [exists |-> TRUE, lines |-> <<csv_headers>>]

\* _initialize_csv: the header is written only when the file does not exist
JuiceInitializeCsv(f) ==
    IF f.exists THEN f ELSE [exists |-> TRUE, lines |-> <<csv_headers>>]

JuiceLoadNothing(f) == {}

JuiceLoadKeepingEmpty(f) ==
    IF ~f.exists \/ Len(f.lines) = 0 THEN {}
    ELSE IF ~(\E i \in 1..Len(f.lines[1]) : f.lines[1][i] = "signature") THEN {}
    ELSE {DictGet(f.lines[1], f.lines[r], "signature") : r \in 2..Len(f.lines)}

\* _load_existing_signatures: the non-empty values of the signature column;
\* nothing when the file is empty (fieldnames is None, the TypeError is caught)
\* or its first line names no signature column
JuiceLoadExistingSignatures(f) ==
    IF ~f.exists \/ Len(f.lines) = 0 THEN {}
    ELSE IF ~(\E i \in 1..Len(f.lines[1]) : f.lines[1][i] = "signature") THEN {}
    ELSE {DictGet(f.lines[1], f.lines[r], "signature") : r \in 2..Len(f.lines)} \ {""}

JuiceLogCsvTruncating(f, entry) ==
    [exists |-> TRUE, lines |-> <<csv_headers, RowOf(entry)>>]

\* _log_csv: one row appended ("a" creates the file when it is missing)
JuiceLogCsv(f, entry) ==
    [exists |-> TRUE, lines |-> Append(f.lines, RowOf(entry))]

\* sig_components joined and digested; body is None or a dict (its items)
JuiceSignature(method, endpoint, body) ==
    Md5(JoinWith("|", <<method, endpoint,
                        IF Len(body) > 0 THEN StrItems(SortedItems(body)) ELSE "">>))

JuiceReserveNothing(used, signature) == used

\* used_signatures.add(signature), before the request is sent
JuiceReserve(used, signature) == used \cup {signature}

JuiceReleaseForgotten(used, signature) == used

\* the except branch of _make_api_request: used_signatures.remove(signature)
JuiceRelease(used, signature) == used \ {signature}

\* _make_api_request(session_id, method, endpoint, body) when the transport
\* answers net: a response, or TransportError (requests.RequestException).
\* at_send is used_signatures as it is while s.request runs.
JuiceMakeApiRequest(used, f, n, method, endpoint, body, net) ==
    LET signature == JuiceSignature(method, endpoint, body)
        reserved == JuiceReserve(used, signature)
    IN
    IF signature \in used
    THEN [used |-> used, file |-> f, uuids |-> n, ret |-> None,
          outcome |-> "duplicate", signature |-> signature, at_send |-> {}]
    ELSE IF net = TransportError
    THEN [used |-> JuiceRelease(reserved, signature), file |-> f,
          uuids |-> n, ret |-> None, outcome |-> "failed", signature |-> signature,
          at_send |-> reserved]
    ELSE [used |-> reserved,
          file |-> JuiceLogCsv(f, [id |-> Uuid(n + 1), signature |-> signature,
                                   body_bytes_sent |-> net.length, ip |-> "127.0.0.1",
                                   method |-> method, path |-> endpoint,
                                   protocol |-> "HTTP/1.1",
                                   request_body |-> IF Len(body) > 0 THEN JsonDumps(body)
                                                    ELSE "N/A",
                                   status |-> net.status, timestamp |-> "start_time"]),
          uuids |-> n + 1, ret |-> "resp", outcome |-> "sent", signature |-> signature,
          at_send |-> reserved]

\* The (method, endpoint, body) an action of generate_traffic asks for.
JuiceRequest(action, basket_id, prod_id, query) ==
    CASE action = "search_products" ->
             [method |-> "GET", endpoint |-> "rest/products/search?q=" \o query,
              body |-> <<>>]
      [] action = "view_product" ->
             [method |-> "GET", endpoint |-> "rest/products/" \o prod_id, body |-> <<>>]
      [] action = "add_to_basket" ->
             [method |-> "POST", endpoint |-> "api/BasketItems/",
              body |-> << <<"ProductId", prod_id>>,
                          <<"BasketId", "'" \o basket_id \o "'">>,
                          <<"quantity", "1">> >>]
      [] action = "view_basket" ->
             [method |-> "GET", endpoint |-> "rest/basket/" \o basket_id, body |-> <<>>]
      [] action = "view_challenges" ->
             [method |-> "GET", endpoint |-> "api/Challenges/", body |-> <<>>]

\* JuiceShopGenerator(): sessions created, csv initialised, signatures loaded
JuiceConstruct ==
    /\ prog = "juice" /\ pc = "off" /\ runs < MaxRuns
    /\ fs' = JuiceInitializeCsv(fs)
    /\ used_signatures' = JuiceLoadExistingSignatures(fs')
    /\ sessions_data' = [i \in JSSessionIds |-> [token |-> None, basket_id |-> None]]
    /\ product_ids' = <<>>
    /\ pc' = "ready"
    /\ runs' = runs + 1
    /\ prior' = fs
    /\ last' = NoCall
    /\ UNCHANGED <<dvwaVars, parser, prog, count, generated, uuids>>

JuiceProceedsAlways(ids) == TRUE

\* if not self.product_ids: ... return
JuiceProceeds(ids) == Len(ids) > 0

\* generate_traffic(count) up to its loop: logins[i] tells whether
\* _register_and_login succeeded for session i, fetched what the product search gave
JuiceGenerateTraffic(c, logins, fetched) ==
    /\ prog = "juice" /\ pc = "ready"
    /\ sessions_data' = [i \in JSSessionIds |->
                            IF logins[i]
                            THEN [token |-> "token-" \o ToString(i),
                                  basket_id |-> ToString(i + 1)]
                            ELSE sessions_data[i]]
    /\ product_ids' = IF sessions_data'[0].token = None THEN product_ids ELSE fetched
    /\ count' = c
    /\ generated' = 0
    /\ pc' = IF ~JuiceProceeds(product_ids') \/ ~(0 < c) THEN "done" ELSE "run"
    /\ last' = NoCall
    /\ UNCHANGED <<dvwaVars, parser, prog, fs, used_signatures, uuids, runs, prior>>

\* one pass of the while loop of generate_traffic
JuicePass(session_id, action, p, query, net) ==
    /\ prog = "juice" /\ pc = "run" /\ generated < count
    /\ LET req == JuiceRequest(action, sessions_data[session_id].basket_id,
                               product_ids[p], query)
           r == JuiceMakeApiRequest(used_signatures, fs, uuids, req.method,
                                    req.endpoint, req.body, net)
       IN  /\ used_signatures' = r.used
           /\ fs' = r.file
           /\ uuids' = r.uuids
           /\ generated' = IF r.ret # None THEN generated + 1 ELSE generated
           /\ pc' = IF generated' < count THEN "run" ELSE "done"
           /\ last' = [op |-> "request", outcome |-> r.outcome,
                       signature |-> r.signature,
                       reserved |-> r.signature \in r.at_send,
                       ret |-> r.ret, rows_before |-> DataRows(fs),
                       retried |-> /\ last.op = "request"
                                   /\ last.outcome = "failed"
                                   /\ last.signature = r.signature]
    /\ UNCHANGED <<dvwaVars, parser, prog, count, sessions_data, product_ids, runs, prior>>

\* a pass of the loop while the ledger file has room for a row
JuiceIteration(session_id, action, p, query, net) ==
    /\ DataRows(fs) < MaxRows
    /\ JuicePass(session_id, action, p, query, net)

\* the process ends (returned from main, or interrupted): its memory is gone
ProcessExit ==
    /\ pc # "off"
    /\ pc' = "off"
    /\ used_signatures' = {}
    /\ count' = 0
    /\ generated' = 0
    /\ sessions_data' = <<>>
    /\ product_ids' = <<>>
    /\ last' = NoCall
    /\ sent_by_method' = <<>>
    /\ method_counts' = <<>>
    /\ authenticated_sessions' = {}
    /\ last_auth_time' = <<>>
    /\ crawl' = NoCrawl
    /\ UNCHANGED <<parser, prog, fs, uuids, runs, prior, now>>

NextJuice ==
    \/ JuiceConstruct
    \/ \E c \in 0..MaxCount, logins \in [JSSessionIds -> BOOLEAN], fetched \in ProductLists :
           JuiceGenerateTraffic(c, logins, fetched)
    \/ \E s \in JSSessionIds, a \in JuiceActions, p \in 1..Len(product_ids),
          q \in SearchQueries, net \in SendResults :
           JuiceIteration(s, a, p, q, net)
    \/ ProcessExit

InitCommon ==
    /\ fs = NoFile
    /\ pc = "off"
    /\ used_signatures = {}
    /\ count = 0
    /\ generated = 0
    /\ sessions_data = <<>>
    /\ product_ids = <<>>
    /\ uuids = 0
    /\ runs = 0
    /\ prior = NoFile
    /\ last = NoCall
    /\ parser = NoParser
    /\ sent_by_method = <<>>
    /\ method_counts = <<>>
    /\ authenticated_sessions = {}
    /\ last_auth_time = <<>>
    /\ now = EpochStart
    /\ crawl = NoCrawl

InitJuice == prog = "juice" /\ InitCommon

SpecJuice == InitJuice /\ [][NextJuice]_vars

(***************************************************************************)
(* Claims about the Juice Shop generator.                                  *)
(***************************************************************************)
NoRepeats(seq) == \A i, j \in 1..Len(seq) : i # j => seq[i] # seq[j]

\* The signature cells of the rows the running process has appended.
AppendedSignatures ==
    {SignatureColumn(fs)[r] : r \in (DataRows(prior) + 1)..DataRows(fs)}

PriorSignatures == {SignatureColumn(prior)[r] : r \in 1..DataRows(prior)}

\* C1: after any number of consecutive Juice Shop runs on one ledger file, no
\* value occurs twice in the file's signature column, and no row appended by
\* the running process carries a signature the file held when it started.
C1_NoDuplicateEmission ==
    /\ NoRepeats(SignatureColumn(fs))
    /\ pc # "off" => AppendedSignatures \cap PriorSignatures = {}

\* a later run has appended a row to a ledger that already held rows
C1_Witness ==
    /\ prog = "juice" /\ runs >= 2 /\ pc # "off"
    /\ DataRows(prior) >= 1
    /\ DataRows(fs) > DataRows(prior)

C8_FailedCall ==
    last.op = "request" /\ last.outcome = "failed"
        => /\ last.reserved
           /\ last.signature \notin used_signatures
           /\ DataRows(fs) = last.rows_before
           /\ last.ret = None

C8_Retry ==
    (/\ last.op = "request" /\ last.outcome = "failed"
     /\ last'.op = "request" /\ last'.signature = last.signature)
        => last'.outcome # "duplicate"

\* C8: _make_api_request reserves the signature before the send; when the send
\* raises, the signature is released again, no row is appended, the call
\* returns None, and a following call with the same request is not skipped.
C8_ReserveThenRelease == [](C8_FailedCall) /\ [][C8_Retry]_vars

\* a send failed, and the same request was then sent and logged
C8_Witness ==
    /\ prog = "juice" /\ last.op = "request" /\ last.outcome = "sent"
    /\ last.retried

(***************************************************************************)
(* WebGoat benign generator (src/webgoat.py).                              *)
(***************************************************************************)
BENIGN_PAGES == {"start.mvc"}     \* of the pages of BENIGN_PAGES
SqliBodies == {"name=Ann&auth_tan=100"}   \* of the bodies faker may produce
WebGoatActions == {"browse_page", "sqli_lesson", "xxe_lesson", "check_webwolf_mail"}

\* _initialize_csv
WebGoatInitializeCsv(f) ==
    IF f.exists THEN f ELSE [exists |-> TRUE, lines |-> <<csv_headers>>]

\* _load_existing_signatures
WebGoatLoadExistingSignatures(f) ==
    IF ~f.exists \/ Len(f.lines) = 0 THEN {}
    ELSE IF ~(\E i \in 1..Len(f.lines[1]) : f.lines[1][i] = "signature") THEN {}
    ELSE {DictGet(f.lines[1], f.lines[r], "signature") : r \in 2..Len(f.lines)} \ {""}

\* _log_csv
WebGoatLogCsv(f, entry) ==
    [exists |-> TRUE, lines |-> Append(f.lines, RowOf(entry))]

\* request_body_str of _make_request; every body the generator passes is a str
WebGoatBodyStr(method, body) == IF method = "GET" THEN "N/A" ELSE body

\* the signature of _make_request: a GET is digested with a fresh uuid4 (nonce)
WebGoatSignature(method, endpoint, body, nonce) ==
    IF method = "GET"
    THEN Md5(JoinWith("|", <<method, endpoint, nonce>>))
    ELSE Md5(JoinWith("|", <<method, endpoint, WebGoatBodyStr(method, body)>>))

\* _make_request(target, method, endpoint, body, content_type) when the
\* transport answers net.  A uuid4 drawn for a request that is not kept
\* anywhere is not counted in uuids.
WebGoatMakeRequest(used, f, n, method, endpoint, body, net) ==
    LET drawn == IF method = "GET" THEN 1 ELSE 0
        signature == WebGoatSignature(method, endpoint, body, Uuid(n + 1))
    IN
    IF signature \in used
    THEN [used |-> used, file |-> f, uuids |-> n, ret |-> None,
          outcome |-> "duplicate", signature |-> signature]
    ELSE IF net = TransportError
    THEN [used |-> (used \cup {signature}) \ {signature}, file |-> f, uuids |-> n,
          ret |-> None, outcome |-> "failed", signature |-> signature]
    ELSE [used |-> used \cup {signature},
          file |-> WebGoatLogCsv(f, [id |-> Uuid(n + drawn + 1), signature |-> signature,
                                     body_bytes_sent |-> net.length, ip |-> "127.0.0.1",
                                     method |-> method, path |-> endpoint,
                                     protocol |-> "HTTP/1.1",
                                     request_body |-> WebGoatBodyStr(method, body),
                                     status |-> net.status,
                                     timestamp |-> "start_time"]),
          uuids |-> n + drawn + 1, ret |-> "resp", outcome |-> "sent",
          signature |-> signature]

\* The (method, endpoint, body) an action of generate_traffic asks for.
WebGoatRequest(action, page, body) ==
    CASE action = "browse_page" -> [method |-> "GET", endpoint |-> page, body |-> None]
      [] action = "sqli_lesson" ->
             [method |-> "POST", endpoint |-> "SqlInjection/attack8", body |-> body]
      [] action = "xxe_lesson" ->
             [method |-> "POST", endpoint |-> "service/restxml", body |-> ""]
      [] action = "check_webwolf_mail" ->
             [method |-> "GET", endpoint |-> "mail", body |-> None]

\* WebGoatGenerator()
WebGoatConstruct ==
    /\ prog = "webgoat" /\ pc = "off" /\ runs < MaxRuns
    /\ fs' = WebGoatInitializeCsv(fs)
    /\ used_signatures' = WebGoatLoadExistingSignatures(fs')
    /\ pc' = "ready"
    /\ runs' = runs + 1
    /\ prior' = fs
    /\ last' = NoCall
    /\ UNCHANGED <<dvwaVars, parser, prog, count, generated, sessions_data, product_ids, uuids>>

\* generate_traffic(count) up to its loop; logged_in is what _login_webgoat returned
WebGoatGenerateTraffic(c, logged_in) ==
    /\ prog = "webgoat" /\ pc = "ready"
    /\ count' = IF logged_in THEN c ELSE count
    /\ generated' = 0
    /\ pc' = IF logged_in /\ 0 < c THEN "run" ELSE "done"
    /\ last' = [op |-> "login", ret |-> logged_in]
    /\ UNCHANGED <<dvwaVars, parser, prog, fs, used_signatures, sessions_data, product_ids, uuids,
                   runs, prior>>

\* one pass of the while loop of generate_traffic
WebGoatIteration(action, page, body, net) ==
    /\ prog = "webgoat" /\ pc = "run" /\ generated < count
    /\ DataRows(fs) < MaxRows
    /\ LET req == WebGoatRequest(action, page, body)
           r == WebGoatMakeRequest(used_signatures, fs, uuids, req.method,
                                   req.endpoint, req.body, net)
       IN  /\ used_signatures' = r.used
           /\ fs' = r.file
           /\ uuids' = r.uuids
           /\ generated' = IF r.ret # None THEN generated + 1 ELSE generated
           /\ pc' = IF generated' < count THEN "run" ELSE "done"
           /\ last' = [op |-> "request", outcome |-> r.outcome,
                       signature |-> r.signature, ret |-> r.ret,
                       method |-> req.method, endpoint |-> req.endpoint,
                       body |-> WebGoatBodyStr(req.method, req.body),
                       rows_before |-> DataRows(fs)]
    /\ UNCHANGED <<dvwaVars, parser, prog, count, sessions_data, product_ids, runs, prior>>

NextWebGoat ==
    \/ WebGoatConstruct
    \/ \E c \in 0..MaxCount, logged_in \in BOOLEAN : WebGoatGenerateTraffic(c, logged_in)
    \/ \E a \in WebGoatActions, page \in BENIGN_PAGES, body \in SqliBodies,
          net \in SendResults :
           WebGoatIteration(a, page, body, net)
    \/ ProcessExit

InitWebGoat == prog = "webgoat" /\ InitCommon

SpecWebGoat == InitWebGoat /\ [][NextWebGoat]_vars

\* The (request.method, request.path, request_body) cells of data row r.
RequestOfRow(f, r) ==
    <<DictGet(f.lines[1], f.lines[r + 1], "request.method"),
      DictGet(f.lines[1], f.lines[r + 1], "request.path"),
      DictGet(f.lines[1], f.lines[r + 1], "request_body")>>

\* C4: in the WebGoat benign generator a call of _make_request with the method,
\* endpoint and body of an already logged request is rejected as a duplicate,
\* so the ledger never holds two rows with equal (request.method,
\* request.path, request_body).
C4_NoEqualRequests ==
    prog = "webgoat" =>
        \A i, j \in 1..DataRows(fs) :
            i # j => RequestOfRow(fs, i) # RequestOfRow(fs, j)

(***************************************************************************)
(* WebGoat malicious generator (src/webgoatr/malacious.py).                *)
(***************************************************************************)
MaliciousTargets == {"SqlInjection/attack8"}   \* of the targets of generate
BasePatterns == {"admin' --"}                  \* of the attack patterns
MutationTypes == {"prefix", "suffix", "parameter", "comment"}

\* _initialize_csv: open(csv_file, "w") starts a fresh file for this run
MaliciousInitializeCsv(f) == [exists |-> TRUE, lines |-> <<csv_headers>>]

\* _log_csv
MaliciousLogCsv(f, entry) ==
    [exists |-> TRUE, lines |-> Append(f.lines, RowOf(entry))]

\* _generate_unique_payload(base_pattern) for the drawn mutation type;
\* unique_id is the first 8 characters of a uuid4
GenerateUniquePayload(base_pattern, mutation_type, unique_id) ==
    CASE mutation_type = "prefix" -> unique_id \o " " \o base_pattern
      [] mutation_type = "suffix" -> base_pattern \o " "
      [] mutation_type = "parameter" -> base_pattern \o "&nonce=" \o unique_id
      [] OTHER -> base_pattern \o " -- " \o unique_id

\* whether the payload of a mutation type holds the drawn unique_id
EmbedsUniqueId(mutation_type) == mutation_type # "suffix"

\* _send_request(endpoint, payload): any exception of the send returns False
\* and leaves the signature in used_signatures
MaliciousSendRequest(used, f, n, endpoint, payload, net) ==
    LET req_signature == Md5("POST " \o endpoint \o " " \o payload) IN
    IF req_signature \in used
    THEN [used |-> used, file |-> f, drawn |-> 0, ret |-> None,
          outcome |-> "duplicate", signature |-> req_signature]
    ELSE IF net = TransportError
    THEN [used |-> used \cup {req_signature}, file |-> f, drawn |-> 0, ret |-> "False",
          outcome |-> "failed", signature |-> req_signature]
    ELSE [used |-> used \cup {req_signature},
          file |-> MaliciousLogCsv(f, [id |-> Uuid(n + 1), signature |-> req_signature,
                                       body_bytes_sent |-> net.length,
                                       ip |-> "faker.ipv4", method |-> "POST",
                                       path |-> endpoint, protocol |-> "HTTP/1.1",
                                       request_body |-> "payload=" \o payload,
                                       status |-> net.status,
                                       timestamp |-> "start_time"]),
          drawn |-> 1, ret |-> "True", outcome |-> "sent",
          signature |-> req_signature]

\* WebGoatMaliciousGenerator()
MaliciousConstruct ==
    /\ prog = "malicious" /\ pc = "off" /\ runs < MaxRuns
    /\ fs' = MaliciousInitializeCsv(fs)
    /\ used_signatures' = {}
    /\ pc' = "ready"
    /\ runs' = runs + 1
    /\ prior' = fs
    /\ last' = NoCall
    /\ uuids' = 0     \* no uuid4 drawn earlier is held anywhere any more
    /\ UNCHANGED <<dvwaVars, parser, prog, count, generated, sessions_data, product_ids>>

\* _login: True unless session.post raised
MaliciousLogin(post_raised) == ~post_raised

\* what the login POST ends in: the target accepts the credentials, answers
\* with a failure (wrong credentials, 4xx, 5xx), or session.post raises
MaliciousLoginAnswers == {"accepted", "rejected", "raised"}

\* generate() up to its loop; c stands for NUM_REQUESTS, answer is what the
\* login POST ended in
MaliciousGenerate(c, answer) ==
    /\ prog = "malicious" /\ pc = "ready"
    /\ answer \in MaliciousLoginAnswers
    /\ count' = IF MaliciousLogin(answer = "raised") THEN c ELSE count
    /\ generated' = 0
    /\ pc' = IF MaliciousLogin(answer = "raised") /\ 0 < c THEN "run" ELSE "done"
    /\ last' = [op |-> "login", ret |-> MaliciousLogin(answer = "raised"),
                answer |-> answer]
    /\ UNCHANGED <<dvwaVars, parser, prog, fs, used_signatures, sessions_data, product_ids, uuids,
                   runs, prior>>

\* one pass of the while loop of generate
MaliciousIteration(target, base_pattern, mutation_type, net) ==
    /\ prog = "malicious" /\ pc = "run" /\ generated < count
    /\ Cardinality(used_signatures) < MaxRows
    /\ LET payload == GenerateUniquePayload(base_pattern, mutation_type, Uuid(uuids + 1))
           kept == IF EmbedsUniqueId(mutation_type) THEN 1 ELSE 0
           r == MaliciousSendRequest(used_signatures, fs, uuids + kept, target,
                                     payload, net)
       IN  /\ used_signatures' = r.used
           /\ fs' = r.file
           /\ uuids' = IF r.outcome = "duplicate" THEN uuids ELSE uuids + kept + r.drawn
           /\ generated' = IF r.ret = "True" THEN generated + 1 ELSE generated
           /\ pc' = IF generated' < count THEN "run" ELSE "done"
           /\ last' = [op |-> "request", outcome |-> r.outcome,
                       signature |-> r.signature, ret |-> r.ret,
                       mutation_type |-> mutation_type,
                       rows_before |-> DataRows(fs)]
    /\ UNCHANGED <<dvwaVars, parser, prog, count, sessions_data, product_ids, runs, prior>>

NextMalicious ==
    \/ MaliciousConstruct
    \/ \E c \in 0..MaxCount, answer \in MaliciousLoginAnswers : MaliciousGenerate(c, answer)
    \/ \E t \in MaliciousTargets, b \in BasePatterns, m \in MutationTypes,
          net \in SendResults :
           MaliciousIteration(t, b, m, net)
    \/ ProcessExit

InitMalicious == prog = "malicious" /\ InitCommon

SpecMalicious == InitMalicious /\ [][NextMalicious]_vars

(***************************************************************************)
(* The three generators that write the `_id, signature, ...` ledger.       *)
(***************************************************************************)
InitLedgers == prog \in {"juice", "webgoat", "malicious"} /\ InitCommon

NextLedgers == NextJuice \/ NextWebGoat \/ NextMalicious

SpecLedgers == InitLedgers /\ [][NextLedgers]_vars

IsPrefix(s, t) == Len(s) <= Len(t) /\ \A i \in 1..Len(s) : s[i] = t[i]

C9_Step ==
    IF prog = "malicious" /\ pc = "off" /\ pc' = "ready"
    THEN fs'.lines = <<csv_headers>>
    ELSE IsPrefix(fs.lines, fs'.lines)

BASE_URL == "http://localhost:8081/DVWA/"
AUTH_TTL_SECONDS == 600
HTTP_METHODS == <<"GET", "POST", "PUT", "DELETE", "PATCH", "HEAD", "OPTIONS">>

DvwaSessionIds == {0, 1}          \* range(sessions), two simulated users

\* s contains sub (Python's `sub in s`)
Contains(s, sub) ==
    \E i \in 1..(Len(s) - Len(sub) + 1) : SubSeq(s, i, i + Len(sub) - 1) = sub

Range(seq) == {seq[i] : i \in 1..Len(seq)}

\* Entries of dvwa_modules and common_pages: path, "methods", and one value
\* of the "values" constructor (items in insertion order, values as repr).
EpXssR == [path |-> "vulnerabilities/xss_r/", methods |-> <<"GET">>,
           values |-> << <<"name", "'Ann_uid_safe'">> >>]
EpSecurity == [path |-> "security.php", methods |-> <<"GET", "POST">>,
               values |-> << <<"security", "'low'">>, <<"seclev_submit", "'Submit'">> >>]
EpAbout == [path |-> "about.php", methods |-> <<"GET">>, values |-> <<>>]
EpIndex == [path |-> "index.php", methods |-> <<"GET">>, values |-> <<>>]
EpApi == [path |-> "vulnerabilities/api/", methods |-> <<"GET", "POST", "PUT", "DELETE">>,
          values |-> <<>>]
EpUpload == [path |-> "vulnerabilities/upload/", methods |-> <<"GET", "POST">>,
             values |-> << <<"Upload", "'Upload'">> >>]

DvwaCatalog == {EpXssR, EpSecurity, EpAbout, EpIndex, EpApi, EpUpload}

\* urljoin(self.base, path)
DvwaUrl(ep) == BASE_URL \o ep.path

\* the "methods" list of the catalog entry a URL was built from
AllowedMethods(url) ==
    UNION {Range(ep.methods) : ep \in {e \in DvwaCatalog : Contains(url, DvwaUrl(e))}}

\* the ratios of realistic_distribution, per mille
RatioPerMille(m) ==
    CASE m = "GET" -> 700 [] m = "POST" -> 250 [] m = "PUT" -> 20
      [] m = "DELETE" -> 10 [] m = "PATCH" -> 10 [] OTHER -> 5

RECURSIVE SumOver(_, _)
SumOver(f, seq) == IF Len(seq) = 0 THEN 0 ELSE f[seq[1]] + SumOver(f, Tail(seq))

MethodCountsNoRemainder(c) ==
    [m \in Range(HTTP_METHODS) |-> (c * RatioPerMille(m)) \div 1000]

\* int(count * ratio) in double arithmetic: the exact floor, except that
\* count * 0.70 falls just below the integer it should be for the counts 90,
\* 170 and 180 (the only such counts below 330; the other ratios give the
\* exact floor for every count up to 200000)
IntOfProduct(c, m) ==
    (c * RatioPerMille(m)) \div 1000
        - (IF m = "GET" /\ c \in {90, 170, 180} THEN 1 ELSE 0)

\* the mutant of method_counts that gives the remainder to POST
MethodCountsRemainderToPost(c) ==
    LET assigned == [m \in Range(HTTP_METHODS) |-> IntOfProduct(c, m)]
    IN  [assigned EXCEPT !["POST"] = @ + (c - SumOver(assigned, HTTP_METHODS))]

\* method_counts: int(count * ratio) each, the remainder goes to GET
MethodCounts(c) ==
    LET assigned == [m \in Range(HTTP_METHODS) |-> IntOfProduct(c, m)]
    IN  [assigned EXCEPT !["GET"] = @ + (c - SumOver(assigned, HTTP_METHODS))]

WithQuotaToSpare(methods, sbm, mc) == SelectSeq(methods, LAMBDA m : sbm[m] + 1 < mc[m])

\* the methods of `methods` that have quota left, in list order
WithQuota(methods, sbm, mc) == SelectSeq(methods, LAMBDA m : sbm[m] < mc[m])

AvailableIgnoringQuota(endpoint_methods, sbm, mc) == endpoint_methods

AvailableAnyMethod(endpoint_methods, sbm, mc) == WithQuota(HTTP_METHODS, sbm, mc)

\* available_methods: the endpoint's methods with quota left, or, when there
\* is none, any method with quota left (empty: the loop breaks)
AvailableMethods(endpoint_methods, sbm, mc) ==
    IF Len(WithQuota(endpoint_methods, sbm, mc)) > 0
    THEN WithQuota(endpoint_methods, sbm, mc)
    ELSE WithQuota(HTTP_METHODS, sbm, mc)

\* the content type chosen for a method and URL; api_json is the coin
\* random.random() < 0.4, xml the draw among JSON and XML
ContentType(method, url, api_json, xml) ==
    IF method \in {"GET", "HEAD", "DELETE", "OPTIONS"}
    THEN "application/x-www-form-urlencoded"
    ELSE IF method = "POST"
    THEN IF Contains(url, "upload") THEN "multipart/form-data"
         ELSE IF Contains(url, "api") /\ api_json THEN "application/json"
         ELSE "application/x-www-form-urlencoded"
    ELSE IF Contains(url, "api")
         THEN (IF xml THEN "application/xml" ELSE "application/json")
         ELSE "application/x-www-form-urlencoded"

\* str() of a dict given by its items
StrDict(items) ==
    "{" \o JoinWith(", ", [i \in 1..Len(items) |->
                              "'" \o items[i][1] \o "': " \o items[i][2]])
        \o "}"

\* the body of a request: [params, request_data (as str(request_data), ""
\* for None or an empty dict), files]
RequestBody(method, url, content_type, params) ==
    IF method \notin {"POST", "PUT", "PATCH"}
    THEN [params |-> params, request_data |-> "", files |-> FALSE]
    ELSE IF content_type = "application/json" /\ Contains(url, "api")
    THEN [params |-> <<>>, request_data |-> "{\"query\": \"q\"}", files |-> FALSE]
    ELSE IF content_type = "application/xml" /\ Contains(url, "api")
    THEN [params |-> <<>>, request_data |-> "<a><b>c</b></a>", files |-> FALSE]
    ELSE [params |-> params,
          request_data |-> IF Len(params) > 0 THEN StrDict(params) ELSE "",
          files |-> content_type = "multipart/form-data" /\ Contains(url, "upload")]

\* gen_headers() plus the Content-Type the loop adds (and removes again for an
\* upload), as items in insertion order; referer None: no Referer header
GenHeaders(user_agent, language, referer, method, content_type, files) ==
    << <<"User-Agent", "'" \o user_agent \o "'">>,
       <<"Accept", "'text/html,application/xhtml+xml,application/xml;q=0.9,*/*;q=0.8'">>,
       <<"Accept-Language", "'" \o language \o "'">>,
       <<"Accept-Encoding", "'gzip, deflate'">>,
       <<"Connection", "'keep-alive'">> >>
    \o (IF referer = None THEN <<>> ELSE << <<"Referer", "'" \o referer \o "'">> >>)
    \o (IF method \in {"POST", "PUT", "PATCH"} /\ ~files
        THEN << <<"Content-Type", "'" \o content_type \o "'">> >>
        ELSE <<>>)

VolatileHeaders == {"User-Agent", "X-Request-ID", "X-Correlation-ID"}

\* the headers that enter the signature
SignedHeaders(headers) == SelectSeq(headers, LAMBDA h : h[1] \notin VolatileHeaders)

\* sig_components joined and digested
DvwaSignature(method, url, params, request_data, content_type, headers) ==
    Md5(JoinWith("|", <<method, url,
                        IF Len(params) > 0 THEN StrItems(SortedItems(params)) ELSE "",
                        request_data, content_type,
                        StrItems(SortedItems(SignedHeaders(headers)))>>))

\* the URL belongs to a protected area
Protected(url) ==
    Contains(url, "vulnerabilities/") \/ Contains(url, "security.php")
        \/ Contains(url, "index.php")

\* What a login attempt on the network may end in (only "ok" returns True).
LoginResults == {"ok", "page_not_200", "post_not_200", "no_success_marker", "exception"}

\* the mutant of _authenticate_session without the TTL shortcut
AuthenticateAlways(auth, lat, session_id, force, t, login) ==
    IF login = "ok"
    THEN [ret |-> TRUE, auth |-> auth \cup {session_id},
          lat |-> [lat EXCEPT ![session_id] = t], logins |-> 1]
    ELSE [ret |-> FALSE, auth |-> auth, lat |-> lat, logins |-> 1]

\* the mutant of _authenticate_session that forgets the session when the
\* login fails
AuthenticateForgetting(auth, lat, session_id, force, t, login) ==
    IF ~force /\ session_id \in auth /\ t - lat[session_id] < AUTH_TTL_SECONDS
    THEN [ret |-> TRUE, auth |-> auth, lat |-> lat, logins |-> 0]
    ELSE IF login = "ok"
    THEN [ret |-> TRUE, auth |-> auth \cup {session_id},
          lat |-> [lat EXCEPT ![session_id] = t], logins |-> 1]
    ELSE [ret |-> FALSE, auth |-> auth \ {session_id}, lat |-> lat, logins |-> 1]

\* the mutant of _authenticate_session that records a login for every session
\* of the pool
AuthenticateWholePool(auth, lat, session_id, force, t, login) ==
    IF ~force /\ session_id \in auth /\ t - lat[session_id] < AUTH_TTL_SECONDS
    THEN [ret |-> TRUE, auth |-> auth, lat |-> lat, logins |-> 0]
    ELSE IF login = "ok"
    THEN [ret |-> TRUE, auth |-> auth \cup DvwaSessionIds,
          lat |-> [i \in DOMAIN lat |-> t], logins |-> 1]
    ELSE [ret |-> FALSE, auth |-> auth, lat |-> lat, logins |-> 1]

\* the mutant of _authenticate_session that stamps last_auth_time when the
\* login fails as well
AuthenticateRestamping(auth, lat, session_id, force, t, login) ==
    IF ~force /\ session_id \in auth /\ t - lat[session_id] < AUTH_TTL_SECONDS
    THEN [ret |-> TRUE, auth |-> auth, lat |-> lat, logins |-> 0]
    ELSE IF login = "ok"
    THEN [ret |-> TRUE, auth |-> auth \cup {session_id},
          lat |-> [lat EXCEPT ![session_id] = t], logins |-> 1]
    ELSE [ret |-> FALSE, auth |-> auth,
          lat |-> [lat EXCEPT ![session_id] = t], logins |-> 1]

\* _authenticate_session(session, session_id, force) called at time t when a
\* login sequence would end in `login`.  logins: login sequences performed.
AuthenticateSession(auth, lat, session_id, force, t, login) ==
    IF ~force /\ session_id \in auth /\ t - lat[session_id] < AUTH_TTL_SECONDS
    THEN [ret |-> TRUE, auth |-> auth, lat |-> lat, logins |-> 0]
    ELSE IF login = "ok"
    THEN [ret |-> TRUE, auth |-> auth \cup {session_id},
          lat |-> [lat EXCEPT ![session_id] = t], logins |-> 1]
    ELSE [ret |-> FALSE, auth |-> auth, lat |-> lat, logins |-> 1]

MaybeRefreshNoTtl(auth, lat, session_id, t, login) ==
    IF session_id \notin auth
    THEN AuthenticateSession(auth, lat, session_id, FALSE, t, login)
    ELSE [ret |-> TRUE, auth |-> auth, lat |-> lat, logins |-> 0]

MaybeRefreshTrusting(auth, lat, session_id, t, login) ==
    [ret |-> TRUE, auth |-> auth, lat |-> lat, logins |-> 0]

\* _maybe_refresh_auth(session, session_id) called at time t
MaybeRefreshAuth(auth, lat, session_id, t, login) ==
    IF session_id \notin auth
    THEN AuthenticateSession(auth, lat, session_id, FALSE, t, login)
    ELSE IF t - lat[session_id] >= AUTH_TTL_SECONDS
    THEN AuthenticateSession(auth, lat, session_id, TRUE, t, login)
    ELSE [ret |-> TRUE, auth |-> auth, lat |-> lat, logins |-> 0]

\* digest[:8]: the first eight hex digits of a digest, taken to differ whenever
\* the digests do
Hex8(digest) == "8:" \o digest

DvwaCsvHeader == <<"timestamp", "session_id", "method", "url", "params_or_data",
                   "status", "unique_token", "content_type", "request_size",
                   "response_size", "headers_hash">>

\* DVWAGenerator.__init__: the header row is written when the file is missing
DvwaInitializeCsv(f) ==
    IF f.exists THEN f ELSE [exists |-> TRUE, lines |-> <<DvwaCsvHeader>>]

\* the mutant of the session id that counts the passes of the loop instead of
\* the requests sent
SessionIdStuck(sent) == 0

\* session_id = sent % len(self.sessions)
SessionIdOf(sent) == sent % Cardinality(DvwaSessionIds)

\* _session_rotate(idx): the position in self.sessions of the client returned
SessionRotate(idx) == idx % Cardinality(DvwaSessionIds)

\* the mutant of _log_csv that writes nothing
DvwaLogCsvSilent(f, row) == f

\* _log_csv (the second definition, which is the one in force)
DvwaLogCsv(f, row) == [exists |-> TRUE, lines |-> Append(f.lines, row)]

\* used_signatures as the request loop starts: a new, empty set
DvwaInitialSignatures(f) == {}

DvwaKeepReserved(used, sig) == used \cup {sig}

\* used_signatures after an attempt that reserved sig was given up (failed
\* authentication or requests.RequestException): the loop just continues
DvwaAfterDiscard(used, sig) == used \cup {sig}

\* What a send may end in: a page, the login page (a bounce), or an exception.
DvwaSendResults == {"page", "login_page", "error"}

\* _response_indicates_login(resp)
ResponseIndicatesLogin(resp) == resp = "login_page"

\* _send_with_reauth at time t: the first send ends in net1, a login sequence
\* (if one is run) in relogin, the second send (if any) in net2
SendWithReauth(auth, lat, session_id, url, t, net1, relogin, net2) ==
    IF net1 = "error"
    THEN [raised |-> TRUE, resp |-> net1, auth |-> auth, lat |-> lat,
          events |-> <<"send">>]
    ELSE IF ResponseIndicatesLogin(net1) /\ Protected(url)
    THEN LET a == AuthenticateSession(auth, lat, session_id, FALSE, t, relogin)
             ev == <<"send">> \o [i \in 1..a.logins |-> "login"]
         IN  IF a.ret
             THEN [raised |-> net2 = "error", resp |-> net2, auth |-> a.auth,
                   lat |-> a.lat, events |-> ev \o <<"send">>]
             ELSE [raised |-> FALSE, resp |-> net1, auth |-> a.auth, lat |-> a.lat,
                   events |-> ev]
    ELSE [raised |-> FALSE, resp |-> net1, auth |-> auth, lat |-> lat,
          events |-> <<"send">>]

\* DVWAGenerator()
DvwaConstruct ==
    /\ prog = "dvwa" /\ pc = "off" /\ runs < MaxRuns
    /\ fs' = DvwaInitializeCsv(fs)
    /\ authenticated_sessions' = {}
    /\ last_auth_time' = [i \in DvwaSessionIds |-> 0]
    /\ crawl' = NoCrawl
    /\ pc' = "ready"
    /\ runs' = runs + 1
    /\ prior' = fs
    /\ last' = NoCall
    /\ UNCHANGED <<parser, prog, used_signatures, count, generated, sessions_data, product_ids,
                   uuids, sent_by_method, method_counts, now>>

\* what the crawl finds besides its start page: links and forms
NothingFound == [urls |-> {}, forms |-> <<>>]
DvwaCrawlFinds == {NothingFound,
                   [urls |-> {BASE_URL \o "about.php"},
                    forms |-> <<BASE_URL \o "vulnerabilities/xss_r/">>]}

\* crawl_site: the crawl starts from index.php on the authenticated first
\* session, from the root otherwise; the start page is always among found_urls
CrawlSite(cr, authenticated, found) ==
    [crawled |-> TRUE,
     all_endpoints |-> {BASE_URL \o (IF authenticated THEN "index.php" ELSE "")}
                          \cup found.urls,
     all_forms |-> found.forms,
     crawls |-> cr.crawls + 1]

\* the mutant of the guard of the crawl that crawls in every call
CrawlAlways(cr, authenticated, found) ==
    [CrawlSite(cr, authenticated, found) EXCEPT !.crawls = IF cr.crawls = 0 THEN 1 ELSE 2]

\* if not self.crawled: self.crawl_site(max_pages=300)
CrawlUnlessCrawled(cr, authenticated, found) ==
    IF cr.crawled THEN cr ELSE CrawlSite(cr, authenticated, found)

\* generate_request_variations(count) up to its loop, on a generator that is
\* constructed or has finished an earlier call: unless the generator has
\* crawled, crawl_site logs session 0 in (the login ends in crawl_login) and
\* crawls; then the quotas and the loop's locals are set
DvwaGenerateVariations(c, crawl_login, found) ==
    /\ prog = "dvwa" /\ pc \in {"ready", "done"}
    /\ DataRows(fs) + c <= DvwaMaxCount
    /\ LET a == IF crawl.crawled
                THEN [ret |-> TRUE, auth |-> authenticated_sessions,
                      lat |-> last_auth_time, logins |-> 0]
                ELSE AuthenticateSession(authenticated_sessions, last_auth_time, 0,
                                         FALSE, now, crawl_login)
       IN  /\ authenticated_sessions' = a.auth
           /\ last_auth_time' = a.lat
           /\ crawl' = CrawlUnlessCrawled(crawl, a.ret, found)
    /\ method_counts' = MethodCounts(c)
    /\ sent_by_method' = [m \in Range(HTTP_METHODS) |-> 0]
    /\ used_signatures' = DvwaInitialSignatures(fs)
    /\ count' = c
    /\ generated' = 0
    /\ pc' = IF 0 < c THEN "run" ELSE "done"
    /\ last' = [op |-> "generate", crawled_before |-> crawl.crawled]
    /\ UNCHANGED <<parser, prog, fs, sessions_data, product_ids, uuids, runs, prior, now>>

\* the first call of generate_request_variations on a new generator
DvwaGenerate(c, crawl_login) ==
    pc = "ready" /\ DvwaGenerateVariations(c, crawl_login, NothingFound)

\* generate_url_variations(base_url): the base url itself (0), or the k-th
\* query string drawn for it, told apart by the uuid4 of its api_key
UrlVariation(k) == IF k = 0 THEN "" ELSE "?api_key=" \o Uuid(k)

\* one pass of the while loop of generate_request_variations; v is 0, an
\* earlier draw of a url variation, or the next one
DvwaIteration(ep, v, user_agent, language, referer, pick, api_json, xml, login, net1, relogin, net2) ==
    /\ prog = "dvwa" /\ pc = "run" /\ generated < count
    /\ v <= uuids + 1
    /\ LET url == DvwaUrl(ep) \o UrlVariation(v)
           drawn == IF v > uuids THEN v ELSE uuids
           available == AvailableMethods(ep.methods, sent_by_method, method_counts)
       IN
       IF Len(available) = 0
       THEN /\ pc' = "done"
            /\ last' = [op |-> "iteration", outcome |-> "break"]
            /\ UNCHANGED <<fs, used_signatures, generated, sent_by_method,
                           authenticated_sessions, last_auth_time, uuids>>
       ELSE
       /\ pick \in Range(available)
       /\ LET method == pick
              content_type == ContentType(method, url, api_json, xml)
              body == RequestBody(method, url, content_type, ep.values)
              headers == GenHeaders(user_agent, language, referer, method,
                                    content_type, body.files)
              sig == DvwaSignature(method, url, body.params, body.request_data,
                                   content_type, headers)
              session_id == SessionIdOf(generated)
              age == now - last_auth_time[session_id]
              check == IF Protected(url)
                       THEN MaybeRefreshAuth(authenticated_sessions, last_auth_time,
                                             session_id, now, login)
                       ELSE [ret |-> TRUE, auth |-> authenticated_sessions,
                             lat |-> last_auth_time, logins |-> 0]
              sw == SendWithReauth(check.auth, check.lat, session_id, url, now,
                                   net1, relogin, net2)
              about == [op |-> "iteration", signature |-> sig, session_id |-> session_id,
                        client |-> SessionRotate(generated),
                        endpoint |-> ep.path, url |-> url,
                        content_type |-> content_type,
                        request_data |-> body.request_data, files |-> body.files,
                        method |-> method, endpoint_methods |-> ep.methods,
                        sent_before |-> sent_by_method,
                        auth_at_send |-> session_id \in check.auth,
                        age_at_send |-> now - check.lat[session_id],
                        protected |-> Protected(url),
                        was_authenticated |-> session_id \in authenticated_sessions,
                        age |-> age]
          IN
          IF sig \in used_signatures
          THEN /\ last' = [op |-> "iteration", outcome |-> "duplicate",
                           signature |-> sig]
               /\ UNCHANGED <<fs, used_signatures, generated, sent_by_method,
                              authenticated_sessions, last_auth_time, pc, uuids>>
          ELSE IF ~check.ret
          THEN /\ used_signatures' = DvwaAfterDiscard(used_signatures, sig)
               /\ authenticated_sessions' = check.auth
               /\ last_auth_time' = check.lat
               /\ last' = about @@
                          [outcome |-> "auth_skip",
                           events |-> [i \in 1..check.logins |-> "login"]]
               /\ uuids' = drawn
               /\ UNCHANGED <<fs, generated, sent_by_method, pc>>
          ELSE IF sw.raised
          THEN /\ used_signatures' = DvwaAfterDiscard(used_signatures, sig)
               /\ authenticated_sessions' = sw.auth
               /\ last_auth_time' = sw.lat
               /\ last' = about @@
                          [outcome |-> "transport_error",
                           events |-> [i \in 1..check.logins |-> "login"] \o sw.events]
               /\ uuids' = drawn
               /\ UNCHANGED <<fs, generated, sent_by_method, pc>>
          ELSE /\ used_signatures' = DvwaKeepReserved(used_signatures, sig)
               /\ authenticated_sessions' = sw.auth
               /\ last_auth_time' = sw.lat
               /\ fs' = DvwaLogCsv(fs,
                            <<ToString(now), ToString(session_id), method,
                              IF sw.resp = "login_page" THEN BASE_URL \o "login.php"
                              ELSE url,
                              "{'params': "
                                \o (IF method \in {"GET", "HEAD", "OPTIONS", "DELETE"}
                                    THEN StrDict(body.params)
                                    ELSE IF body.request_data = "" THEN StrDict(<<>>)
                                    ELSE body.request_data)
                                \o ", 'files': "
                                \o (IF body.files THEN "True" ELSE "False") \o "}",
                              "200", Hex8(sig), content_type, "0", "512",
                              Hex8(Md5(StrItems(SortedItems(headers))))>>)
               /\ uuids' = drawn
               /\ generated' = generated + 1
               /\ sent_by_method' = [sent_by_method EXCEPT ![method] = @ + 1]
               /\ pc' = IF generated' < count THEN "run" ELSE "done"
               /\ last' = about @@
                          [outcome |-> "logged",
                           events |-> [i \in 1..check.logins |-> "login"] \o sw.events]
    /\ UNCHANGED <<crawl, parser, prog, count, sessions_data, product_ids, runs, prior,
                   method_counts, now>>

\* The instants at which the clock is read: the start, and the three around the
\* expiry of an authentication made at the start.
Instants == {EpochStart + d : d \in {0, AUTH_TTL_SECONDS - 1, AUTH_TTL_SECONDS,
                                     AUTH_TTL_SECONDS + 1}}

\* time passes until instant t
Tick(t) ==
    /\ prog = "dvwa"
    /\ t \in Instants /\ now < t
    /\ now' = t
    /\ UNCHANGED <<crawl, parser, prog, fs, pc, used_signatures, count, generated, sessions_data,
                   product_ids, uuids, runs, prior, last, sent_by_method,
                   method_counts, authenticated_sessions, last_auth_time>>

DvwaLanguages == {"en-US,en;q=0.9", "en-GB,en;q=0.9"}   \* of the three of gen_headers
DvwaLogins == {"ok", "no_success_marker"}

InitDvwa == prog = "dvwa" /\ InitCommon

\* signatures reserved in this run for requests that were never logged
Lost == Cardinality(used_signatures) - generated

\* The network fails while fewer than DvwaMaxLost reservations are lost.
DvwaNet == IF Lost < DvwaMaxLost THEN {"page", "error"} ELSE {"page"}

\* The quota and dedupe view: three catalog endpoints, the server never bounces
\* to the login page, logins succeed, time stands still.
NextDvwa ==
    \/ DvwaConstruct
    \/ \E c \in 0..DvwaMaxCount : DvwaGenerate(c, "ok")
    \/ \E ep \in {EpXssR, EpSecurity, EpAbout}, pick \in Range(HTTP_METHODS),
          net1 \in DvwaNet :
           DvwaIteration(ep, 0, "Mozilla/5.0", "en-US,en;q=0.9", None, pick,
                         FALSE, FALSE, "ok", net1, "ok", "page")
    \/ ProcessExit

SpecDvwa == InitDvwa /\ [][NextDvwa]_vars

\* C2 (DVWA): once the request loop runs, the signature set holds the signature
\* of every row that earlier runs logged to the ledger file (the file as it was
\* when this run's generator was constructed).
C2_PriorRunsRemembered ==
    (prog = "dvwa" /\ pc = "run") =>
        \A i \in 2..Len(prior.lines) :
            \E sig \in used_signatures : Hex8(sig) = prior.lines[i][7]

\* C5 (DVWA): in the request loop no method is sent more often than its quota,
\* and the per-method counters add up to sent.
C5_QuotaConservation ==
    (prog = "dvwa" /\ pc \in {"run", "done"}) =>
        /\ \A m \in Range(HTTP_METHODS) : sent_by_method[m] <= method_counts[m]
        /\ SumOver(sent_by_method, HTTP_METHODS) = generated

C5_Witness ==
    /\ prog = "dvwa" /\ pc = "run" /\ generated >= 2
    /\ sent_by_method["POST"] = method_counts["POST"] /\ method_counts["POST"] > 0
    /\ sent_by_method["GET"] > 0

\* a loop pass sent a request (the send was answered or raised)
C6_Sent ==
    /\ prog = "dvwa" /\ last.op = "iteration"
    /\ last.outcome \in {"logged", "transport_error"}

C7_ReleasedOnTransportError ==
    (prog = "dvwa" /\ last.op = "iteration" /\ last.outcome = "transport_error") =>
        last.signature \notin used_signatures

\* The header view: one endpoint, requests that differ in what gen_headers drew.
NextDvwaHeaders ==
    \/ DvwaConstruct
    \/ \E c \in 0..MaxCount : DvwaGenerate(c, "ok")
    \/ \E user_agent \in {"Mozilla/5.0", "curl/8.0"}, language \in DvwaLanguages,
          referer \in {None, BASE_URL}, pick \in Range(HTTP_METHODS), net1 \in DvwaNet :
           DvwaIteration(EpAbout, 0, user_agent, language, referer, pick,
                         FALSE, FALSE, "ok", net1, "ok", "page")

SpecDvwaHeaders == InitDvwa /\ [][NextDvwaHeaders]_vars

\* C3 (DVWA): two requests that agree on method, URL, parameters, body and
\* content type have one signature whatever their headers are, so the second is
\* rejected: no two rows of a run's ledger agree on all of these.
C3_HeadersNotSigned ==
    prog = "dvwa" =>
        \A i, j \in 2..Len(fs.lines) :
            (/\ fs.lines[i][3] = fs.lines[j][3]
             /\ fs.lines[i][4] = fs.lines[j][4]
             /\ fs.lines[i][5] = fs.lines[j][5]
             /\ fs.lines[i][8] = fs.lines[j][8]) => i = j

\* The authentication view: a protected and an open endpoint, time passes, the
\* server may bounce to the login page, logins may fail.
NextDvwaAuth ==
    \/ DvwaConstruct
    \/ \E c \in 0..MaxCount, crawl_login \in DvwaLogins : DvwaGenerate(c, crawl_login)
    \/ \E ep \in {EpSecurity, EpAbout}, pick \in Range(HTTP_METHODS),
          login \in DvwaLogins, net1 \in DvwaSendResults, relogin \in DvwaLogins,
          net2 \in DvwaSendResults :
           DvwaIteration(ep, 0, "Mozilla/5.0", "en-US,en;q=0.9", None, pick,
                         FALSE, FALSE, login, net1, relogin, net2)
    \/ \E t \in Instants : Tick(t)

SpecDvwaAuth == InitDvwa /\ [][NextDvwaAuth]_vars

\* the events of a loop pass up to and including its first send
RECURSIVE UpToSend(_)
UpToSend(events) ==
    IF Len(events) = 0 THEN <<>>
    ELSE IF events[1] = "send" THEN <<"send">>
    ELSE <<events[1]>> \o UpToSend(Tail(events))

\* a loop pass took a session that was authenticated AUTH_TTL_SECONDS + 1
\* seconds earlier to a protected endpoint
C10_Expired ==
    /\ prog = "dvwa" /\ last.op = "iteration"
    /\ last.outcome \in {"logged", "transport_error", "auth_skip"}
    /\ last.protected /\ last.was_authenticated
    /\ last.age = AUTH_TTL_SECONDS + 1

\* C10 (DVWA): a session authenticated at t0 that is taken to a protected
\* endpoint at t0 + 601 runs exactly one login sequence after the TTL check,
\* and the request, if it is sent, is sent after it.
C10_OneLoginBeforeSend ==
    C10_Expired =>
        UpToSend(last.events) \in {<<"login">>, <<"login", "send">>}

C10_Witness ==
    /\ C10_Expired
    /\ last.outcome = "logged"
    /\ last.events = <<"login", "send">>

\* a loop pass issued the first send of a request to a protected endpoint
C11_ProtectedSend ==
    /\ prog = "dvwa" /\ last.op = "iteration"
    /\ last.outcome \in {"logged", "transport_error"}
    /\ last.protected

\* C11 (DVWA): when the first send of a request to a protected endpoint is
\* issued, the sending session is in authenticated_sessions and its
\* authentication is less than AUTH_TTL_SECONDS old at the freshness check.
C11_FreshWhenSent ==
    C11_ProtectedSend =>
        last.auth_at_send /\ last.age_at_send < AUTH_TTL_SECONDS

\* a protected request went out on a session whose authentication had reached
\* the TTL exactly when the pass began
C11_Witness ==
    /\ C11_ProtectedSend
    /\ last.was_authenticated /\ last.age = AUTH_TTL_SECONDS
    /\ last.auth_at_send /\ last.age_at_send = 0

(***************************************************************************)
(* Loading, appending and reloading a Juice Shop ledger file.              *)
(***************************************************************************)
\* csv_headers as it was before the signature column was added
LegacyHeaders == SelectSeq(csv_headers, LAMBDA h : h # "signature")

ReloadSignatures == {"a1", "b2", "c3"}

\* a log entry as _make_api_request builds it, for signature sig
ReloadEntry(sig) ==
    [id |-> "id-" \o sig, signature |-> sig, body_bytes_sent |-> "512",
     ip |-> "127.0.0.1", method |-> "GET", path |-> "api/Challenges/",
     protocol |-> "HTTP/1.1", request_body |-> "N/A", status |-> "200",
     timestamp |-> "t"]

\* a row of a file written before the signature column existed
LegacyRow(sig) == SelectSeq(RowOf(ReloadEntry(sig)), LAMBDA cell : cell # sig)

\* The ledger files found on disk: written with the signature column (a row's
\* signature may be empty) or before it was added.
ReloadFiles ==
    UNION {
      {[exists |-> TRUE,
        lines |-> <<csv_headers>> \o [i \in 1..n |-> RowOf(ReloadEntry(sigs[i]))]] :
          sigs \in [1..n -> ReloadSignatures \cup {""}]}
      \cup
      {[exists |-> TRUE,
        lines |-> <<LegacyHeaders>> \o [i \in 1..n |-> LegacyRow(sigs[i])]] :
          sigs \in [1..n -> ReloadSignatures]}
      : n \in 0..MaxRows}

reloadFrame == <<parser, prog, count, sessions_data, product_ids, uuids, runs, dvwaVars>>

\* _load_existing_signatures on the file as found
ReloadLoad ==
    /\ prog = "reload" /\ pc = "off"
    /\ used_signatures' = JuiceLoadExistingSignatures(fs)
    /\ prior' = fs
    /\ generated' = 0
    /\ pc' = "loaded"
    /\ UNCHANGED <<fs, last>>
    /\ UNCHANGED reloadFrame

\* the signatures of the rows appended since the load
ReloadAppended ==
    {fs.lines[i][2] : i \in (Len(prior.lines) + 1)..Len(fs.lines)}

\* _log_csv of a row whose signature is new
ReloadAppend(sig) ==
    /\ prog = "reload" /\ pc = "loaded" /\ generated < MaxCount
    /\ sig \notin used_signatures /\ sig \notin ReloadAppended
    /\ fs' = JuiceLogCsv(fs, ReloadEntry(sig))
    /\ generated' = generated + 1
    /\ UNCHANGED <<pc, used_signatures, prior, last>>
    /\ UNCHANGED reloadFrame

\* _load_existing_signatures again, by a fresh generator
ReloadAgain ==
    /\ prog = "reload" /\ pc = "loaded"
    /\ last' = [op |-> "reload", original |-> used_signatures,
                appended |-> generated,
                loaded |-> JuiceLoadExistingSignatures(fs)]
    /\ pc' = "done"
    /\ UNCHANGED <<fs, used_signatures, generated, prior>>
    /\ UNCHANGED reloadFrame

InitReload ==
    /\ prog = "reload" /\ fs \in ReloadFiles
    /\ pc = "off" /\ used_signatures = {} /\ count = 0 /\ generated = 0
    /\ sessions_data = <<>> /\ product_ids = <<>> /\ uuids = 0 /\ runs = 0
    /\ prior = NoFile /\ last = NoCall /\ parser = NoParser
    /\ sent_by_method = <<>> /\ method_counts = <<>>
    /\ authenticated_sessions = {} /\ last_auth_time = <<>> /\ now = EpochStart
    /\ crawl = NoCrawl

NextReload ==
    \/ ReloadLoad
    \/ \E sig \in ReloadSignatures : ReloadAppend(sig)
    \/ ReloadAgain

SpecReload == InitReload /\ [][NextReload]_vars

\* the reload found the original set and one more signature for each row
C12_Grown ==
    /\ Cardinality(last.loaded) = Cardinality(last.original) + last.appended
    /\ last.original \subseteq last.loaded

\* C12 (Juice Shop) as stated: after N rows with new, distinct, non-empty
\* signatures are appended to any ledger file, reloading yields the set loaded
\* before and N more.
C12_IdempotentReload ==
    (prog = "reload" /\ last.op = "reload") => C12_Grown

\* C12 (Juice Shop): the same, for a file whose header row names the signature
\* column.
C12_IdempotentReloadWithColumn ==
    (prog = "reload" /\ last.op = "reload"
        /\ \E i \in 1..Len(prior.lines[1]) : prior.lines[1][i] = "signature")
    => C12_Grown

C12_Witness ==
    /\ prog = "reload" /\ last.op = "reload"
    /\ \E i \in 1..Len(prior.lines[1]) : prior.lines[1][i] = "signature"
    /\ last.original # {} /\ last.appended = MaxCount
    /\ Cardinality(last.loaded) = Cardinality(last.original) + MaxCount

(***************************************************************************)
(* Progress of the DVWA request loop.                                      *)
(***************************************************************************)
\* Logins fail while fewer than DvwaMaxLost reservations are lost.
DvwaLiveLogins == IF Lost < DvwaMaxLost THEN DvwaLogins ELSE {"ok"}

\* a pass over a common page, with the url as it is or with a variation of it
\* (a uuid4 is never drawn twice)
DvwaLivePass ==
    \E ep \in {EpAbout, EpIndex}, v \in {0, uuids + 1}, pick \in Range(HTTP_METHODS),
       login \in DvwaLiveLogins, net1 \in DvwaNet :
        DvwaIteration(ep, v, "Mozilla/5.0", "en-US,en;q=0.9", None, pick,
                      FALSE, FALSE, login, net1, "ok", "page")

\* a pass that sends and logs its request
DvwaLoggedPass == DvwaLivePass /\ generated' = generated + 1

NextDvwaLive ==
    \/ DvwaConstruct
    \/ \E c \in 0..MaxCount : DvwaGenerate(c, "ok")
    \/ DvwaLivePass

\* the request loop is running: a logged pass is possible exactly then (a new
\* url variation can always be drawn and sent on a method with quota left)
DvwaLoopRunning == prog = "dvwa" /\ pc = "run"

\* Weak fairness of the logged pass, with its enabling condition written out:
\* while the loop runs, the random draws of a pass come up with a new request
\* and the target answers it, before long.
DvwaLoggedPassFair == []<>(~DvwaLoopRunning) \/ []<><<DvwaLoggedPass>>_vars

\* The process keeps running and the loop is fair to the logged pass.
SpecDvwaLive ==
    /\ InitDvwa /\ [][NextDvwaLive]_vars
    /\ WF_vars(DvwaConstruct)
    /\ WF_vars(\E c \in 0..MaxCount : DvwaGenerate(c, "ok"))
    /\ DvwaLoggedPassFair

\* C13 (DVWA): once the request loop runs it ends with sent = count, whatever
\* passes are discarded as duplicates, skipped for a failed login or aborted by
\* a transport error on the way.
C13_LoopTerminates ==
    (prog = "dvwa" /\ pc = "run") ~> (pc = "done" /\ generated = count)

C13_Witness ==
    /\ prog = "dvwa" /\ pc = "done"
    /\ generated = count /\ count = MaxCount
    /\ Lost = DvwaMaxLost

(***************************************************************************)
(* nginx access-log parser (src/dvwa/nginx_log_parser.py).                 *)
(***************************************************************************)
MaxLogLines == 3   \* lines of the access log

\* s.find(ch) + 1: the position of the first ch in s, 0 when there is none
RECURSIVE FindFrom(_, _, _)
FindFrom(s, ch, i) ==
    IF i > Len(s) THEN 0
    ELSE IF SubSeq(s, i, i) = ch THEN i
    ELSE FindFrom(s, ch, i + 1)

Find(s, ch) == FindFrom(s, ch, 1)

\* s.split(ch)[0] and s.split(ch, 1)[1], for s holding ch
BeforeFirst(s, ch) == SubSeq(s, 1, Find(s, ch) - 1)

AfterFirst(s, ch) == SubSeq(s, Find(s, ch) + 1, Len(s))

\* the character a %XX escape stands for, "" for the escapes the logs of the
\* model do not hold
PercentChar(hex) ==
    CASE hex = "20" -> " "
      [] hex = "3D" -> "="
      [] hex = "41" -> "A"
      [] OTHER -> ""

\* urllib.parse.unquote: every %XX escape is replaced by its character, a '%'
\* that starts no escape is kept, '+' is kept
RECURSIVE UnquoteFrom(_, _)
UnquoteFrom(s, i) ==
    IF i > Len(s) THEN ""
    ELSE IF SubSeq(s, i, i) = "%" /\ i + 2 <= Len(s) /\ PercentChar(SubSeq(s, i + 1, i + 2)) # ""
         THEN PercentChar(SubSeq(s, i + 1, i + 2)) \o UnquoteFrom(s, i + 3)
         ELSE SubSeq(s, i, i) \o UnquoteFrom(s, i + 1)

Unquote(s) == UnquoteFrom(s, 1)

\* str.upper() on the method tokens of the model
Upper(s) ==
    CASE s = "get" -> "GET"
      [] s = "post" -> "POST"
      [] OTHER -> s

\* %b of strptime: the month number of an abbreviated month name, "" if none
MonthNumber(b) ==
    CASE b = "Jan" -> "01" [] b = "Feb" -> "02" [] b = "Mar" -> "03"
      [] b = "Apr" -> "04" [] b = "May" -> "05" [] b = "Jun" -> "06"
      [] b = "Jul" -> "07" [] b = "Aug" -> "08" [] b = "Sep" -> "09"
      [] b = "Oct" -> "10" [] b = "Nov" -> "11" [] b = "Dec" -> "12"
      [] OTHER -> ""

\* parse_timestamp: the part before the first blank is read as
\* dd/Mon/yyyy:HH:MM:SS and written in ISO form; the zone offset is dropped;
\* a string strptime rejects is returned as it came
ParseTimestamp(timestamp_str) ==
    LET first == IF Find(timestamp_str, " ") = 0 THEN timestamp_str
                 ELSE BeforeFirst(timestamp_str, " ")
    IN  IF /\ Len(first) = 20
           /\ SubSeq(first, 3, 3) = "/" /\ SubSeq(first, 7, 7) = "/"
           /\ SubSeq(first, 12, 12) = ":" /\ SubSeq(first, 15, 15) = ":"
           /\ SubSeq(first, 18, 18) = ":"
           /\ MonthNumber(SubSeq(first, 4, 6)) # ""
        THEN SubSeq(first, 8, 11) \o "-" \o MonthNumber(SubSeq(first, 4, 6)) \o "-"
             \o SubSeq(first, 1, 2) \o "T" \o SubSeq(first, 13, 20)
        ELSE timestamp_str

\* the mutant of extract_request_body that keeps the escapes of the query
ExtractRequestBodyRaw(method, path) ==
    IF Upper(method) \in {"POST", "GET"} /\ Find(path, "?") # 0
    THEN AfterFirst(path, "?")
    ELSE ""

\* extract_request_body: the unquoted query string of a POST or GET path
ExtractRequestBody(method, path) ==
    IF Upper(method) = "POST"
    THEN IF Find(path, "?") # 0 THEN Unquote(AfterFirst(path, "?")) ELSE ""
    ELSE IF Upper(method) = "GET"
         THEN IF Find(path, "?") # 0 THEN Unquote(AfterFirst(path, "?")) ELSE ""
         ELSE ""

\* clean_path: the unquoted path without its query
clean_path(path) ==
    Unquote(IF Find(path, "?") # 0 THEN BeforeFirst(path, "?") ELSE path)

\* hexdigest()[:12]
Hex12(digest) == "12:" \o digest

\* generate_unique_id
generate_unique_id(ip, timestamp, method, path) ==
    Hex12(Md5(ip \o "_" \o timestamp \o "_" \o method \o "_" \o path))

\* csv_headers of parse_log_file
NginxCsvHeaders == <<"_id", "body_bytes_sent", "ip", "request.method", "request.path",
                     "request.protocol", "request_body", "status", "timestamp">>

\* A line of the access log, by the fields the patterns of LOG_FORMATS capture.
\* shape "combined" is `ip - - [ts] "m p proto" status bytes "referer" "ua"`,
\* shape "with_body" is `ip - [ts] "m p proto" status bytes request_body: "b"`
\* (request_body "None": the line ends after bytes), "blank" is an empty line
\* and "garbage" a line no pattern matches.
LogLine(shape, timestamp, method, path, status, body_bytes_sent, request_body) ==
    [shape |-> shape, ip |-> "127.0.0.1", timestamp |-> timestamp,
     method |-> method, path |-> path, protocol |-> "HTTP/1.1", status |-> status,
     body_bytes_sent |-> body_bytes_sent, referer |-> "-", user_agent |-> "UA",
     request_body |-> request_body]

RefLine == LogLine("combined", "10/Oct/2025:14:30:45 +0000", "GET", "/a/b?x=1", "200", "512", "None")

SameKeyLine == LogLine("combined", "10/Oct/2025:14:30:45 +0000", "GET", "/a/b?x=2", "404", "0", "None")

EscapedLine == LogLine("combined", "10/Oct/2025:14:30:46 +0000", "GET", "/a%20b?q=%41%3D1", "200", "512", "None")

PutLine == LogLine("combined", "10/Foo/2025:14:30:47 +0000", "PUT", "/p?x=1", "200", "512", "None")

BodyLine == LogLine("with_body", "10/Oct/2025:17:25:27 +0530", "GET", "/a/b?x=1", "302", "154", "y=%41")

DashBodyLine == LogLine("with_body", "10/Oct/2025:17:25:28 +0530", "post", "/login?next=a", "302", "154", "-")

BlankLine == LogLine("blank", "", "", "", "", "", "None")

GarbageLine == LogLine("garbage", "", "", "", "", "", "None")

LogLines == {RefLine, SameKeyLine, EscapedLine, PutLine, BodyLine, DashBodyLine,
             BlankLine, GarbageLine}

\* the text of a line as it stands in the log
Text(line) ==
    LET request == "\"" \o line.method \o " " \o line.path \o " " \o line.protocol \o "\" "
                   \o line.status \o " " \o line.body_bytes_sent
    IN  CASE line.shape = "combined" ->
               line.ip \o " - - [" \o line.timestamp \o "] " \o request
               \o " \"" \o line.referer \o "\" \"" \o line.user_agent \o "\""
          [] line.shape = "with_body" ->
               line.ip \o " - [" \o line.timestamp \o "] " \o request
               \o (IF line.request_body = "None" THEN ""
                   ELSE " request_body: \"" \o line.request_body \o "\"")
          [] line.shape = "blank" -> ""
          [] OTHER -> "garbage"

\* re.match(LOG_FORMATS[format_name], line): 'combined' wants the two dashes and
\* the quoted referer and user agent, 'dvwa_with_body' the single dash
Matches(format_name, line) ==
    CASE format_name = "combined" -> line.shape = "combined"
      [] format_name = "dvwa_with_body" -> line.shape = "with_body"
      [] OTHER -> FALSE

\* detect_log_format: the first format of LOG_FORMATS that matches ('common'
\* and 'dvwa_custom' match no line that 'combined' does not match first, for
\* the lines of the model)
detect_log_format(line) ==
    IF Matches("combined", line) THEN "combined"
    ELSE IF Matches("dvwa_with_body", line) THEN "dvwa_with_body"
    ELSE "None"

\* the row parse_log_file writes for a matched line
NginxRow(line) ==
    LET timestamp == ParseTimestamp(line.timestamp)
        clean_request_path == clean_path(line.path)
        request_body_captured == IF line.shape = "with_body" THEN line.request_body
                                 ELSE "None"
        request_body ==
            IF request_body_captured \notin {"None", "", "-"}
            THEN Unquote(request_body_captured)
            ELSE ExtractRequestBody(line.method, line.path)
    IN  <<generate_unique_id(line.ip, timestamp, line.method, clean_request_path),
          line.body_bytes_sent, line.ip, line.method, clean_request_path,
          line.protocol, request_body, line.status, timestamp>>

nginxFrame == <<prog, used_signatures, count, generated, sessions_data,
                product_ids, uuids, runs, dvwaVars>>

\* parse_log_file up to the header row: without a log file it returns False;
\* the format is detected from the first line; without a first line, or with a
\* blank one, it returns False and the output file is left as it was; else the
\* output is opened 'w'
NginxOpen ==
    /\ prog = "nginx" /\ pc = "off"
    /\ LET first_line == IF Len(parser.lines) = 0 THEN BlankLine ELSE parser.lines[1]
           detected == detect_log_format(first_line)
           pattern == IF ~parser.exists \/ first_line.shape = "blank" THEN "None"
                      ELSE IF detected = "None" THEN "combined" ELSE detected
       IN  /\ parser' = [parser EXCEPT !.pattern = pattern]
           /\ prior' = fs
           /\ IF pattern = "None"
              THEN /\ pc' = "done"
                   /\ fs' = fs
                   /\ last' = [op |-> "parse_log_file", ret |-> FALSE]
              ELSE /\ pc' = "run"
                   /\ fs' = [exists |-> TRUE, lines |-> <<NginxCsvHeaders>>]
                   /\ last' = [op |-> "open"]
    /\ UNCHANGED nginxFrame

NginxWriteRowOnTop(f, row) ==
    [f EXCEPT !.lines = <<f.lines[1], row>> \o Tail(f.lines)]

\* writer.writerow of a data row
NginxWriteRow(f, row) == [f EXCEPT !.lines = Append(@, row)]

\* one pass of the loop over the lines of the log: a blank line is passed
\* over, a line the pattern does not match is counted in error_count, a
\* matched line is written and counted in processed_count
NginxLine ==
    /\ prog = "nginx" /\ pc = "run"
    /\ parser.line_num < Len(parser.lines)
    /\ LET line == parser.lines[parser.line_num + 1]
           wrote == line.shape # "blank" /\ Matches(parser.pattern, line)
       IN  /\ parser' = [parser EXCEPT
                          !.line_num = @ + 1,
                          !.processed_count = IF wrote THEN @ + 1 ELSE @,
                          !.error_count = IF line.shape # "blank" /\ ~wrote
                                          THEN @ + 1 ELSE @]
           /\ fs' = IF wrote THEN NginxWriteRow(fs, NginxRow(line)) ELSE fs
           /\ last' = [op |-> "line", line |-> line, wrote |-> wrote]
    /\ UNCHANGED <<pc, prior>>
    /\ UNCHANGED nginxFrame

\* the log is exhausted: both files are closed and parse_log_file returns True
NginxClose ==
    /\ prog = "nginx" /\ pc = "run"
    /\ parser.line_num = Len(parser.lines)
    /\ pc' = "done"
    /\ last' = [op |-> "parse_log_file", ret |-> TRUE]
    /\ UNCHANGED <<fs, parser, prior>>
    /\ UNCHANGED nginxFrame

\* the logs of the model: every sequence of up to MaxLogLines lines
Logs == UNION {[1..n -> LogLines] : n \in 0..MaxLogLines}

\* an earlier output of the parser, overwritten by the next one
OldOutput == [exists |-> TRUE, lines |-> <<NginxCsvHeaders, NginxRow(PutLine)>>]

InitNginx ==
    /\ prog = "nginx" /\ fs \in {NoFile, OldOutput}
    /\ parser \in [exists : {TRUE}, lines : Logs, pattern : {"None"}, line_num : {0},
                   processed_count : {0}, error_count : {0}] \cup {NoParser}
    /\ pc = "off" /\ used_signatures = {} /\ count = 0 /\ generated = 0
    /\ sessions_data = <<>> /\ product_ids = <<>> /\ uuids = 0 /\ runs = 0
    /\ prior = NoFile /\ last = NoCall
    /\ sent_by_method = <<>> /\ method_counts = <<>>
    /\ authenticated_sessions = {} /\ last_auth_time = <<>> /\ now = EpochStart
    /\ crawl = NoCrawl

NextNginx == NginxOpen \/ NginxLine \/ NginxClose

SpecNginx == InitNginx /\ [][NextNginx]_vars

\* the data rows of the output file
NginxRows == IF fs.exists /\ Len(fs.lines) > 1 THEN SubSeq(fs.lines, 2, Len(fs.lines)) ELSE <<>>

\* C14 (nginx parser): within one output file no two data rows carry the same
\* _id; in particular two rows written for log lines that share client IP,
\* timestamp, method and path without query, and differ in query string, status
\* or bytes sent, have different _id.
C14_IdsUnique ==
    (prog = "nginx" /\ pc \in {"run", "done"}) =>
        \A i, j \in 1..Len(NginxRows) :
            NginxRows[i] # NginxRows[j] => NginxRows[i][1] # NginxRows[j][1]

(***************************************************************************)
(* The files of all five scripts.                                          *)
(***************************************************************************)
InitSchemas == InitLedgers \/ InitDvwa \/ InitNginx

NextSchemas == NextLedgers \/ NextDvwaHeaders \/ NextNginx

SpecSchemas == InitSchemas /\ [][NextSchemas]_vars

\* the file starts with the header row and every data row has one cell per
\* column of it
HasSchema(f, header) ==
    /\ Len(f.lines) >= 1
    /\ f.lines[1] = header
    /\ \A r \in 2..Len(f.lines) : Len(f.lines[r]) = Len(header)

\* C15: every file a generator has created starts with the header row _id,
\* signature, body_bytes_sent, ip, request.method, request.path,
\* request.protocol, request_body, status, timestamp (the nginx parser: the
\* same without signature) and every data row has exactly one value per
\* column; for the DVWA, Juice Shop, WebGoat benign and WebGoat malicious
\* generators alike.
C15_LedgerSchema ==
    fs.exists =>
        IF prog = "nginx" THEN HasSchema(fs, NginxCsvHeaders)
        ELSE HasSchema(fs, csv_headers)

(***************************************************************************)
(* Claims about the rows of the nginx parser.                              *)
(***************************************************************************)
RefText == "127.0.0.1 - - [10/Oct/2025:14:30:45 +0000] \"GET /a/b?x=1 HTTP/1.1\" 200 512 \"-\" \"UA\""

\* the cell of the last written row under a column of the output
LastCell(key) == DictGet(NginxCsvHeaders, fs.lines[Len(fs.lines)], key)

\* a GET line with a query has just been written
C16_GetWritten ==
    /\ prog = "nginx" /\ last.op = "line" /\ last.wrote
    /\ last.line.method = "GET" /\ Find(last.line.path, "?") # 0

\* the reference case: the row written for the reference line, and the one row
\* of the log that holds nothing else
C16_Reference ==
    /\ (prog = "nginx" /\ last.op = "line" /\ last.wrote /\ Text(last.line) = RefText) =>
           /\ LastCell("request.method") = "GET"
           /\ LastCell("request.path") = "/a/b"
           /\ LastCell("request_body") = "x=1"
           /\ LastCell("status") = "200"
           /\ LastCell("body_bytes_sent") = "512"
           /\ LastCell("ip") = "127.0.0.1"
           /\ LastCell("request.protocol") = "HTTP/1.1"
           /\ LastCell("timestamp") = "2025-10-10T14:30:45"
    /\ (prog = "nginx" /\ pc = "done" /\ Len(parser.lines) = 1
          /\ Text(parser.lines[1]) = RefText) => DataRows(fs) = 1

\* The original statement of C16: the reference case, and for every GET line
\* the written path is the part of the logged path before the first '?' and
\* the written request_body the part after it.
C16_GetSplit ==
    /\ C16_Reference
    /\ C16_GetWritten =>
           /\ LastCell("request.path") = BeforeFirst(last.line.path, "?")
           /\ LastCell("request_body") = AfterFirst(last.line.path, "?")

\* the line carries a request_body field that is neither empty nor "-"
HasLoggedBody(line) ==
    line.shape = "with_body" /\ line.request_body \notin {"None", "", "-"}

\* C16 (amended): the reference case, and for every GET line the written path
\* is the URL-decoded part of the logged path before the first '?'; the
\* written request_body is the URL-decoded part after it, unless the line
\* carries a request_body field other than "-", which is then written
\* URL-decoded in its place.
C16_GetSplitDecoded ==
    /\ C16_Reference
    /\ C16_GetWritten =>
           /\ LastCell("request.path") = Unquote(BeforeFirst(last.line.path, "?"))
           /\ LastCell("request_body") =
                  IF HasLoggedBody(last.line) THEN Unquote(last.line.request_body)
                  ELSE Unquote(AfterFirst(last.line.path, "?"))

\* the reference line and then a GET line with escapes have been written
C16_Witness ==
    /\ prog = "nginx" /\ pc = "done"
    /\ Len(parser.lines) = 2 /\ Text(parser.lines[1]) = RefText
    /\ parser.lines[2] = EscapedLine
    /\ DataRows(fs) = 2
    /\ LastCell("request.path") = "/a b"
    /\ LastCell("request_body") = "q=A=1"
    /\ DictGet(NginxCsvHeaders, fs.lines[2], "request_body") = "x=1"

(***************************************************************************)
(* Claims about the sends and the counters of a DVWA loop pass.            *)
(***************************************************************************)
Sends(events) == Cardinality({i \in 1..Len(events) : events[i] = "send"})

\* the rows of the file whose unique_token is that of the signature sig
RowsOf(sig) ==
    {r \in 2..Len(fs.lines) :
        DictGet(DvwaCsvHeader, fs.lines[r], "unique_token") = Hex8(sig)}

\* a loop pass sent a request to a protected endpoint
C17_ProtectedPass ==
    /\ prog = "dvwa" /\ last.op = "iteration"
    /\ last.outcome \in {"logged", "transport_error"}
    /\ last.protected

\* C17 (DVWA): a loop pass sends its request at most twice; a second send is
\* the retry after a bounce to the login page and is preceded by a login
\* sequence on the network, even when the session is recorded as authenticated
\* within the TTL; a pass that logs has written exactly one row.
C17_ForcedReauthThenRetry ==
    C17_ProtectedPass =>
        /\ Sends(last.events) <= 2
        /\ Sends(last.events) = 2 =>
               /\ Len(last.events) >= 3
               /\ SubSeq(last.events, Len(last.events) - 2, Len(last.events))
                      = <<"send", "login", "send">>
        /\ last.outcome = "logged" => Cardinality(RowsOf(last.signature)) = 1

\* C18 (DVWA): a pass that is discarded (duplicate signature, failed
\* authentication, transport error) leaves sent and sent_by_method as they
\* were and appends no row; sent and sent_by_method[method] grow by one in a
\* pass exactly when the pass appended one row, and by nothing else.
C18_Step ==
    (prog = "dvwa" /\ pc = "run") =>
        LET rows == DataRows(fs') - DataRows(fs)
        IN  /\ rows \in {0, 1}
            /\ IsPrefix(fs.lines, fs'.lines)
            /\ (last'.op = "iteration"
                  /\ last'.outcome \in {"duplicate", "auth_skip", "transport_error"})
                   => rows = 0
            /\ rows = 0 => generated' = generated /\ sent_by_method' = sent_by_method
            /\ rows = 1 =>
                   /\ generated' = generated + 1
                   /\ sent_by_method' =
                          [sent_by_method EXCEPT ![last'.method] = @ + 1]
                   /\ DictGet(DvwaCsvHeader, fs'.lines[Len(fs'.lines)], "method")
                          = last'.method

C18_DiscardedUncounted == [][C18_Step]_vars

\* after one logged pass, a pass was given up on a transport error: one row,
\* sent = 1, and a signature reserved for nothing
C18_Witness ==
    /\ prog = "dvwa" /\ pc = "run"
    /\ last.op = "iteration" /\ last.outcome = "transport_error"
    /\ generated = 1 /\ DataRows(fs) = DataRows(prior) + 1
    /\ Cardinality(used_signatures) = 2

(***************************************************************************)
(* _authenticate_session called on a constructed DVWA generator.           *)
(***************************************************************************)
\* The call starts at `now`; a login sequence, if one is run, ends in `login`
\* at t_end.
DvwaAuthenticate(session_id, force, login, t_end) ==
    /\ prog = "dvwa" /\ pc = "ready"
    /\ t_end \in Instants /\ now <= t_end
    /\ LET a == AuthenticateSession(authenticated_sessions, last_auth_time,
                                    session_id, force, now, login)
       IN  /\ a.logins = 0 => t_end = now
           /\ authenticated_sessions' = a.auth
           /\ last_auth_time' = a.lat
           /\ last' = [op |-> "authenticate", session_id |-> session_id,
                       force |-> force, login |-> login, ret |-> a.ret,
                       logins |-> a.logins, started |-> now,
                       auth_before |-> authenticated_sessions,
                       lat_before |-> last_auth_time]
    /\ now' = t_end
    /\ UNCHANGED <<crawl, parser, prog, fs, pc, used_signatures, count, generated,
                   sessions_data, product_ids, uuids, runs, prior, sent_by_method,
                   method_counts>>

NextDvwaLogin ==
    \/ DvwaConstruct
    \/ \E session_id \in DvwaSessionIds, force \in BOOLEAN, login \in LoginResults,
          t_end \in Instants :
           DvwaAuthenticate(session_id, force, login, t_end)
    \/ \E t \in Instants : Tick(t)

SpecDvwaLogin == InitDvwa /\ [][NextDvwaLogin]_vars

\* an unforced call for a session recorded as authenticated less than
\* AUTH_TTL_SECONDS before the call
C19_Shortcut ==
    /\ prog = "dvwa" /\ last.op = "authenticate"
    /\ ~last.force
    /\ last.session_id \in last.auth_before
    /\ last.started - last.lat_before[last.session_id] < AUTH_TTL_SECONDS

\* C19 (DVWA): _authenticate_session with force=False, for a session that is in
\* authenticated_sessions and was authenticated less than AUTH_TTL_SECONDS
\* ago, returns True, runs no login on the network and leaves
\* authenticated_sessions and last_auth_time as they were.
C19_Idempotent ==
    C19_Shortcut =>
        /\ last.ret
        /\ last.logins = 0
        /\ authenticated_sessions = last.auth_before
        /\ last_auth_time = last.lat_before

\* the shortcut was taken one second before the authentication expired
C19_Witness ==
    /\ C19_Shortcut
    /\ last.started - last.lat_before[last.session_id] = AUTH_TTL_SECONDS - 1
    /\ last.ret /\ last.logins = 0

\* C20 (DVWA): a call of _authenticate_session that returns False leaves
\* authenticated_sessions and last_auth_time exactly as they were; they change
\* only in a call that returns True, and then the session id is added and its
\* last_auth_time is the time at which the call started.
C20_FailureChangesNothing ==
    (prog = "dvwa" /\ last.op = "authenticate") =>
        /\ ~last.ret =>
               /\ authenticated_sessions = last.auth_before
               /\ last_auth_time = last.lat_before
        /\ (authenticated_sessions # last.auth_before
              \/ last_auth_time # last.lat_before) =>
               /\ last.ret
               /\ authenticated_sessions = last.auth_before \cup {last.session_id}
               /\ last_auth_time =
                      [last.lat_before EXCEPT ![last.session_id] = last.started]
        /\ (last.logins = 1 /\ last.login # "ok") => ~last.ret

\* a forced login of an authenticated session failed on an exception some time
\* after the call began: the session is still recorded as authenticated
C20_Witness ==
    /\ prog = "dvwa" /\ last.op = "authenticate"
    /\ ~last.ret /\ last.force /\ last.login = "exception"
    /\ last.session_id \in last.auth_before
    /\ last.session_id \in authenticated_sessions
    /\ last.started < now

(***************************************************************************)
(* Claims about the DVWA session pool.                                     *)
(***************************************************************************)
\* the last loop pass was skipped because the forced re-authentication of a
\* session that had been authenticated failed
C21_FailedReauth ==
    /\ prog = "dvwa" /\ pc = "run"
    /\ last.op = "iteration" /\ last.outcome = "auth_skip"
    /\ last.was_authenticated

\* The original statement of C21, its state part: after the failed
\* re-authentication the session id is no longer in authenticated_sessions.
C21_UnauthenticatedAfterFailure ==
    C21_FailedReauth => last.session_id \notin authenticated_sessions

\* the step is a loop pass that takes a request to a protected endpoint as far
\* as the freshness check
C21_NextProtectedPass ==
    /\ last' # last /\ last'.op = "iteration"
    /\ last'.outcome \in {"auth_skip", "logged", "transport_error"}
    /\ last'.protected

C21_Step ==
    C21_FailedReauth =>
        /\ last.session_id \in authenticated_sessions
        /\ last.age >= AUTH_TTL_SECONDS
        /\ now - last_auth_time[last.session_id] >= last.age
        /\ C21_NextProtectedPass =>
               /\ last'.session_id = last.session_id
               /\ \/ last'.outcome = "auth_skip"
                  \/ /\ Len(last'.events) >= 2
                     /\ last'.events[1] = "login" /\ last'.events[2] = "send"
                     /\ last_auth_time'[last.session_id] = now

\* C21 (amended): after the forced re-authentication of a session whose TTL
\* has elapsed fails, the session id is still in authenticated_sessions with
\* its old last_auth_time, which is expired; the next protected request on the
\* session runs a login first and is skipped unless that login succeeds.
C21_ExpiredUntilLoginSucceeds == [][C21_Step]_vars

\* after a failed re-authentication the next pass logged in and sent
C21_Witness ==
    /\ prog = "dvwa" /\ last.op = "iteration" /\ last.outcome = "logged"
    /\ last.protected /\ last.was_authenticated
    /\ last.age >= AUTH_TTL_SECONDS
    /\ last.events = <<"login", "send">>
    /\ Cardinality(used_signatures) > generated

\* the session_id cell of the k-th row (from 0) the running loop has logged
LoggedSessionId(k) ==
    DictGet(DvwaCsvHeader, fs.lines[Len(fs.lines) - generated + k + 1], "session_id")

\* C22 (DVWA): the k-th logged row of a run (k from 0) carries session id
\* k mod pool_size and was sent on the client at that position of the pool; a
\* pass that is given up after the session was chosen used the session of the
\* next row to be logged, so discards do not advance the rotation.
C22_RoundRobin ==
    (prog = "dvwa" /\ pc \in {"run", "done"}) =>
        /\ \A k \in 0..(generated - 1) :
               LoggedSessionId(k) = ToString(k % Cardinality(DvwaSessionIds))
        /\ (last.op = "iteration" /\ last.outcome = "logged") =>
               /\ last.session_id = (generated - 1) % Cardinality(DvwaSessionIds)
               /\ last.client = last.session_id
        /\ (last.op = "iteration" /\ last.outcome \in {"auth_skip", "transport_error"}) =>
               /\ last.session_id = generated % Cardinality(DvwaSessionIds)
               /\ last.client = last.session_id

\* the rotation has come round to the first session again, and a pass on it
\* was given up
C22_Witness ==
    /\ prog = "dvwa" /\ pc = "run"
    /\ generated = Cardinality(DvwaSessionIds)
    /\ LoggedSessionId(0) = "0" /\ LoggedSessionId(1) = "1"
    /\ last.op = "iteration" /\ last.outcome = "transport_error"
    /\ last.session_id = 0

\* C23 (DVWA): a call of _authenticate_session for session i, whatever it
\* returns, leaves the membership in authenticated_sessions and the
\* last_auth_time of every other session as they were.
C23_OthersUntouched ==
    (prog = "dvwa" /\ last.op = "authenticate") =>
        \A j \in DvwaSessionIds \ {last.session_id} :
            /\ (j \in authenticated_sessions) = (j \in last.auth_before)
            /\ last_auth_time[j] = last.lat_before[j]

\* session 1 logged in at a later time than session 0, which keeps its own
\* record
C23_Witness ==
    /\ prog = "dvwa" /\ last.op = "authenticate"
    /\ last.session_id = 1 /\ last.ret /\ last.logins = 1
    /\ 0 \in last.auth_before /\ 0 \in authenticated_sessions
    /\ last_auth_time[0] < last_auth_time[1]

(***************************************************************************)
(* The bodies of DVWA requests: the API, upload and security endpoints,    *)
(* with and without a query added by generate_url_variations.              *)
(***************************************************************************)
NextDvwaBodies ==
    \/ DvwaConstruct
    \/ \E c \in 0..DvwaMaxCount : DvwaGenerate(c, "ok")
    \/ \E ep \in {EpApi, EpUpload, EpSecurity}, v \in {0, uuids + 1},
          pick \in Range(HTTP_METHODS), api_json \in BOOLEAN :
           DvwaIteration(ep, v, "Mozilla/5.0", "en-US,en;q=0.9", None, pick,
                         api_json, FALSE, "ok", "page", "ok", "page")

SpecDvwaBodies == InitDvwa /\ [][NextDvwaBodies]_vars

\* a loop pass sent its request
C24_Sent ==
    /\ prog = "dvwa" /\ last.op = "iteration"
    /\ last.outcome \in {"logged", "transport_error"}

\* C24 (DVWA): of every request that is sent, (a) a GET, HEAD, DELETE or
\* OPTIONS request has no body and no file; (b) a JSON or XML body goes only
\* to the sampled endpoint vulnerabilities/api/, never to another endpoint
\* whose URL carries extra query parameters; (c) a file part is attached only
\* to a POST to the upload endpoint.
C24_ContentTypeRule ==
    C24_Sent =>
        /\ last.method \in {"GET", "HEAD", "DELETE", "OPTIONS"} =>
               last.request_data = "" /\ ~last.files
        /\ last.content_type \in {"application/json", "application/xml"} =>
               last.endpoint = EpApi.path
        /\ last.files =>
               last.method = "POST" /\ last.endpoint = EpUpload.path

(***************************************************************************)
(* The quota targets of generate_request_variations for larger counts.     *)
(***************************************************************************)
MaxQuotaCount == 200   \* the largest count whose targets are computed

\* generate_request_variations(c) as far as method_counts (the loop is not
\* entered here)
DvwaQuota(c) ==
    /\ prog = "dvwa" /\ pc = "ready"
    /\ count' = c
    /\ method_counts' = MethodCounts(c)
    /\ last' = [op |-> "method_counts", count |-> c]
    /\ UNCHANGED <<crawl, parser, prog, fs, pc, used_signatures, generated, sessions_data,
                   product_ids, uuids, runs, prior, sent_by_method,
                   authenticated_sessions, last_auth_time, now>>

NextDvwaQuota ==
    \/ DvwaConstruct
    \/ \E c \in 0..MaxQuotaCount : DvwaQuota(c)

SpecDvwaQuota == InitDvwa /\ [][NextDvwaQuota]_vars

\* floor(count * ratio), the ratio in per mille
FloorOfShare(c, per_mille) == (c * per_mille) \div 1000

\* C25 (DVWA): for every count, each method other than GET gets the target
\* floor(count * ratio), GET gets floor(count * 0.70) plus the whole rounding
\* remainder, no target is negative and the seven targets sum to count.
C25_QuotaTargets ==
    (prog = "dvwa" /\ last.op = "method_counts") =>
        LET floors == [m \in Range(HTTP_METHODS) |->
                          FloorOfShare(count, RatioPerMille(m))]
            remainder == count - SumOver(floors, HTTP_METHODS)
        IN  /\ method_counts["POST"] = FloorOfShare(count, 250)
            /\ method_counts["PUT"] = FloorOfShare(count, 20)
            /\ method_counts["DELETE"] = FloorOfShare(count, 10)
            /\ method_counts["PATCH"] = FloorOfShare(count, 10)
            /\ method_counts["HEAD"] = FloorOfShare(count, 5)
            /\ method_counts["OPTIONS"] = FloorOfShare(count, 5)
            /\ method_counts["GET"] = FloorOfShare(count, 700) + remainder
            /\ remainder >= 0
            /\ \A m \in Range(HTTP_METHODS) : method_counts[m] >= 0
            /\ SumOver(method_counts, HTTP_METHODS) = count

\* count = 90: the product 90 * 0.70 is truncated to 62, the targets are
\* GET 67, POST 22, PUT 1 and 0 for the rest
C25_Witness ==
    /\ prog = "dvwa" /\ last.op = "method_counts" /\ count = 90
    /\ IntOfProduct(90, "GET") = 62
    /\ method_counts["GET"] = 67 /\ method_counts["POST"] = 22
    /\ method_counts["PUT"] = 1 /\ method_counts["HEAD"] = 0

(***************************************************************************)
(* Several calls of generate_request_variations on one DVWA generator.     *)
(***************************************************************************)
NextDvwaCrawl ==
    \/ DvwaConstruct
    \/ \E c \in 0..MaxCount, crawl_login \in DvwaLogins, found \in DvwaCrawlFinds :
           DvwaGenerateVariations(c, crawl_login, found)
    \/ \E ep \in {EpAbout, EpSecurity}, pick \in Range(HTTP_METHODS),
          login \in DvwaLogins, net1 \in DvwaNet :
           DvwaIteration(ep, 0, "Mozilla/5.0", "en-US,en;q=0.9", None, pick,
                         FALSE, FALSE, login, net1, "ok", "page")

SpecDvwaCrawl == InitDvwa /\ [][NextDvwaCrawl]_vars

C26_Step ==
    prog = "dvwa" =>
        /\ (pc \in {"run", "done"} \/ generated > 0) =>
               crawl.crawled /\ crawl.crawls = 1
        /\ crawl.crawls <= 1
        /\ ~crawl.crawled => DataRows(fs) = DataRows(prior)
        /\ (crawl.crawled /\ pc' # "off") => crawl' = crawl

\* C26 (DVWA): the crawl runs once and is over before the first synthesized
\* request is sent or logged; from then on all_endpoints and all_forms are not
\* modified for the rest of the run, and a further call of
\* generate_request_variations on the generator does not crawl again.
C26_CrawlOnceFirst == [][C26_Step]_vars

\* a second call on a generator that crawled in its first call, after a row
\* was logged: still one crawl, and what it found
C26_Witness ==
    /\ prog = "dvwa" /\ last.op = "generate" /\ last.crawled_before
    /\ crawl.crawls = 1
    /\ BASE_URL \o "about.php" \in crawl.all_endpoints
    /\ Len(crawl.all_forms) = 1
    /\ DataRows(fs) > DataRows(prior)

(***************************************************************************)
(* _load_existing_signatures on any ledger file, also a missing or an      *)
(* empty one.                                                              *)
(***************************************************************************)
EmptyFile == [exists |-> TRUE, lines |-> <<>>]

LoadFiles == ReloadFiles \cup {NoFile, EmptyFile}

\* what the body of the try block raises: on an empty file reader.fieldnames
\* is None and the membership test raises TypeError
RaisedInTry(f) ==
    IF f.exists /\ Len(f.lines) = 0 THEN "TypeError" ELSE "none"

\* except Exception as e: every exception of the try block is logged, none
\* leaves the function
EscapesLoad(raised) == IF raised \in {"none", "TypeError"} THEN "none" ELSE raised

\* JuiceShopGenerator's call of _load_existing_signatures on the file as found
LoadSignatures ==
    /\ prog = "reload" /\ pc = "off"
    /\ used_signatures' = JuiceLoadExistingSignatures(fs)
    /\ prior' = fs
    /\ generated' = 0
    /\ last' = [op |-> "load", raised |-> RaisedInTry(fs),
                escaped |-> EscapesLoad(RaisedInTry(fs))]
    /\ pc' = IF EscapesLoad(RaisedInTry(fs)) = "none" THEN "loaded" ELSE "crashed"
    /\ UNCHANGED fs
    /\ UNCHANGED reloadFrame

InitLoad ==
    /\ prog = "reload" /\ fs \in LoadFiles
    /\ pc = "off" /\ used_signatures = {} /\ count = 0 /\ generated = 0
    /\ sessions_data = <<>> /\ product_ids = <<>> /\ uuids = 0 /\ runs = 0
    /\ prior = NoFile /\ last = NoCall /\ parser = NoParser
    /\ sent_by_method = <<>> /\ method_counts = <<>>
    /\ authenticated_sessions = {} /\ last_auth_time = <<>> /\ now = EpochStart
    /\ crawl = NoCrawl

NextLoad ==
    \/ LoadSignatures
    \/ \E sig \in ReloadSignatures : ReloadAppend(sig)
    \/ ReloadAgain

SpecLoad == InitLoad /\ [][NextLoad]_vars

\* the file is absent, empty, or its header names no signature column
C27_NothingToLoad ==
    \/ ~prior.exists
    \/ Len(prior.lines) = 0
    \/ "signature" \notin Range(prior.lines[1])

\* C27 (Juice Shop): loading never raises and the run continues; from an
\* absent file, an empty file or a file whose header has no signature column
\* used_signatures is empty; otherwise it is exactly the set of the non-empty
\* values of the signature column.
C27_LoadFailsSoft ==
    (prog = "reload" /\ pc # "off") =>
        /\ pc # "crashed"
        /\ used_signatures = IF C27_NothingToLoad THEN {}
                             ELSE Range(SignatureColumn(prior)) \ {""}

\* an empty file was loaded (the TypeError was caught) and the run went on to
\* append a row
C27_Witness ==
    /\ prog = "reload" /\ pc = "loaded" /\ last.op = "load"
    /\ prior = EmptyFile /\ last.raised = "TypeError" /\ last.escaped = "none"
    /\ used_signatures = {}
    /\ Len(fs.lines) = 1

\* a file with an empty and a non-empty signature was loaded
C27_WitnessValues ==
    /\ prog = "reload" /\ pc = "loaded"
    /\ "" \in Range(SignatureColumn(prior))
    /\ used_signatures = {"a1"}

(***************************************************************************)
(* The parser's accounting of the lines of its log.                        *)
(***************************************************************************)
\* the lines read so far by the loop
C28_Read == SubSeq(parser.lines, 1, parser.line_num)

\* of the lines read, those the detected pattern matches, in input order
C28_Matched ==
    SelectSeq(C28_Read, LAMBDA l : l.shape # "blank" /\ Matches(parser.pattern, l))

C28_NonBlank == SelectSeq(C28_Read, LAMBDA l : l.shape # "blank")

\* C28 (nginx parser): every non-blank line read is either written as one row
\* and counted in processed_count or skipped and counted in error_count; a
\* line that does not match does not stop the lines after it; the rows are in
\* input order; processed_count + error_count is the number of non-blank
\* lines and the output has processed_count data rows.
C28_LineAccounting ==
    (prog = "nginx" /\ pc \in {"run", "done"} /\ parser.pattern # "None") =>
        /\ parser.processed_count + parser.error_count = Len(C28_NonBlank)
        /\ parser.processed_count = Len(C28_Matched)
        /\ DataRows(fs) = parser.processed_count
        /\ NginxRows = [i \in 1..Len(C28_Matched) |-> NginxRow(C28_Matched[i])]
        /\ pc = "done" => parser.line_num = Len(parser.lines)

\* a log of a matched line, an unmatched line and another, different matched
\* line was parsed to its end: two rows in input order, one error
C28_Witness ==
    /\ prog = "nginx" /\ pc = "done" /\ last.op = "parse_log_file" /\ last.ret
    /\ Len(parser.lines) = 3
    /\ parser.lines[2] = GarbageLine
    /\ parser.processed_count = 2 /\ parser.error_count = 1
    /\ NginxRows = <<NginxRow(parser.lines[1]), NginxRow(parser.lines[3])>>
    /\ NginxRows[1] # NginxRows[2]

(***************************************************************************)
(* The completion report of the Juice Shop script.                         *)
(***************************************************************************)
\* generate_traffic has returned: __main__ prints the completion report next
C29_Reported == prog = "juice" /\ pc = "done"

\* C29 (Juice Shop): whenever the completion report for count new requests is
\* printed, exactly count rows were appended to the ledger during this run,
\* also when the session initialisation or the product fetch failed.
C29_ReportMatchesRows ==
    C29_Reported =>
        /\ generated = count
        /\ DataRows(fs) - DataRows(prior) = count

(***************************************************************************)
(* One run of the Juice Shop generator that is never interrupted, with a   *)
(* target that answers.                                                    *)
(***************************************************************************)
\* the actions drawn in these runs: their requests do not depend on the session
LiveActions == {"search_products", "view_product", "view_challenges"}

\* the largest count asked for: one more than the requests LiveActions can make
\* of one search query and one product
LiveCount == 4

\* a pass that draws action a and whose send, when one is made, is answered
JuiceAnsweredPass(a) ==
    \E s \in JSSessionIds, p \in 1..Len(product_ids), q \in SearchQueries,
       net \in Responses :
        JuicePass(s, a, p, q, net)

NextJuiceLive ==
    \/ JuiceConstruct
    \/ \E c \in 0..LiveCount, logins \in [JSSessionIds -> BOOLEAN], fetched \in ProductLists :
           JuiceGenerateTraffic(c, logins, fetched)
    \/ \E s \in JSSessionIds, a \in LiveActions, p \in 1..Len(product_ids),
          q \in SearchQueries, net \in SendResults :
           JuicePass(s, a, p, q, net)

JuiceLoopRunning == prog = "juice" /\ pc = "run"

\* while the loop runs, random.choices draws every action again and again and
\* the target answers: every send eventually succeeds
JuiceAnsweredFair ==
    \A a \in LiveActions :
        []<>(~JuiceLoopRunning) \/ []<><<JuiceAnsweredPass(a)>>_vars

SpecJuiceLive ==
    /\ InitJuice /\ [][NextJuiceLive]_vars
    /\ WF_vars(JuiceConstruct)
    /\ JuiceAnsweredFair

\* C30 (Juice Shop): once the loop of generate_traffic(count) runs, the call
\* eventually returns, provided every send eventually succeeds, also when
\* count exceeds the number of distinct (method, endpoint, body) requests the
\* loop can make plus the loaded signatures.
C30_EventuallyReturns == JuiceLoopRunning ~> (prog = "juice" /\ pc = "done")

(***************************************************************************)
(* Generators that cannot initialise.                                      *)
(***************************************************************************)
\* generate_traffic was called and the generator could not initialise: the
\* Juice Shop generator has no product ids, _login_webgoat returned False
C31_NotInitialised ==
    \/ prog = "juice" /\ pc \in {"run", "done"} /\ Len(product_ids) = 0
    \/ prog = "webgoat" /\ pc \in {"run", "done"} /\ last.op = "login" /\ ~last.ret

C31_Step ==
    C31_NotInitialised =>
        /\ pc = "done" /\ generated = 0 /\ last.op # "request"
        /\ DataRows(fs) = DataRows(prior)
        /\ pc' \in {"done", "off"}
        /\ fs' = fs /\ uuids' = uuids

\* C31 (Juice Shop, WebGoat benign): a generator that cannot initialise (no
\* product ids; _login_webgoat returned False) returns from generate_traffic
\* without sending a synthesized request and without appending a ledger row.
C31_NothingEmitted == [][C31_Step]_vars

\* a second process on a ledger that holds rows, whose session 0 did not log
\* in, returned with the ledger as it found it
C31_Witness ==
    /\ prog = "juice" /\ pc = "done" /\ count > 0
    /\ Len(product_ids) = 0 /\ sessions_data[0].token = None
    /\ DataRows(fs) > 0 /\ fs = prior

\* the WebGoat login failed on a ledger that holds rows
C31_WitnessWebGoat ==
    /\ prog = "webgoat" /\ pc = "done" /\ last.op = "login" /\ ~last.ret
    /\ DataRows(fs) > 0 /\ fs = prior

(***************************************************************************)
(* The login of the WebGoat malicious generator.                           *)
(***************************************************************************)
\* C32 (WebGoat malicious): _login returns True only when the target accepted
\* the login; when the target answers the login POST with a failure _login
\* returns False and generate sends no attack request.
C32_LoginReflectsTarget ==
    (prog = "malicious" /\ last.op = "login") =>
        /\ last.ret => last.answer = "accepted"
        /\ last.answer = "rejected" => ~last.ret /\ pc = "done"

(***************************************************************************)
(* The payloads of the WebGoat malicious generator.                        *)
(***************************************************************************)
\* C33 (WebGoat malicious): for every base pattern and mutation type the
\* payload of _generate_unique_payload embeds the freshly drawn unique id, so
\* two calls with one base pattern and distinct ids give different payloads,
\* and _send_request never rejects a freshly generated payload as a duplicate.
C33_PayloadsUnique ==
    prog = "malicious" =>
        /\ \A b \in BasePatterns, m \in MutationTypes :
               /\ Contains(GenerateUniquePayload(b, m, Uuid(uuids + 1)), Uuid(uuids + 1))
               /\ GenerateUniquePayload(b, m, Uuid(uuids + 1))
                      # GenerateUniquePayload(b, m, Uuid(uuids + 2))
        /\ last.op = "request" => last.outcome # "duplicate"

(***************************************************************************)
(* SiteCrawler.crawl on its own (src/dvwa_crawler.py): in these runs the   *)
(* variable crawl holds the crawler's fields and the locals of crawl, and  *)
(* the site that is crawled.                                               *)
(***************************************************************************)
MaxPages == 3     \* largest max_pages of a crawl

PageRoot == BASE_URL
PageIndex == BASE_URL \o "index.php"
PageAbout == BASE_URL \o "about.php"
PageElsewhere == "http://example.com/"

SitePages == {PageRoot, PageIndex, PageAbout}

\* the links of a page as urljoin(url, href) gives them, in document order
LinkLists == {<<>>, <<PageIndex>>, <<PageAbout, PageAbout>>, <<PageAbout, PageRoot>>,
              <<PageElsewhere, PageIndex>>}

Sites == [SitePages -> LinkLists]

\* the pages that hold a form
FormPages == {PageIndex}

\* what a page fetch ends in: a 200 answer that is parsed to its end, another
\* status, or an exception raised by the get (after = 0) or while the links
\* are collected (after that many links)
FetchResults ==
    {[kind |-> "ok", after |-> 0], [kind |-> "status", after |-> 0]}
        \cup {[kind |-> "raised", after |-> k] : k \in 0..1}

\* restrict to same host / path under DVWA
SameSite(full) ==
    /\ Contains(full, "localhost") \/ Contains(full, "127.0.0.1")
    /\ Contains(full, SubSeq(BASE_URL, 1, Len(BASE_URL) - 1))

RECURSIVE CollectLinksUnchecked(_, _)
CollectLinksUnchecked(c, links) ==
    IF Len(links) = 0 THEN c
    ELSE LET full == Head(links)
             next == IF SameSite(full)
                     THEN [c EXCEPT !.found_urls = @ \cup {full},
                                    !.to_visit = Append(@, full)]
                     ELSE c
         IN  CollectLinksUnchecked(next, Tail(links))

\* the loop over the links of a page: a link not found before is added to
\* found_urls and appended to to_visit
RECURSIVE CollectLinks(_, _)
CollectLinks(c, links) ==
    IF Len(links) = 0 THEN c
    ELSE LET full == Head(links)
             next == IF SameSite(full) /\ full \notin c.found_urls
                     THEN [c EXCEPT !.found_urls = @ \cup {full},
                                    !.to_visit = Append(@, full)]
                     ELSE c
         IN  CollectLinks(next, Tail(links))

\* the loop over the forms of a page
CollectForms(c, url) ==
    IF url \in FormPages
    THEN [c EXCEPT !.form_targets = Append(@, [url |-> url, method |-> "get"])]
    ELSE c

\* SiteCrawler(session).crawl(start_path, max_pages) up to its loop
CrawlStart(start_path, max_pages) ==
    /\ prog = "crawler" /\ pc = "off"
    /\ crawl' = [crawl EXCEPT !.max_pages = max_pages,
                              !.to_visit = <<BASE_URL \o start_path>>,
                              !.found_urls = @ \cup {BASE_URL \o start_path},
                              !.idx = 0]
    /\ pc' = "run"
    /\ last' = [op |-> "crawl", start |-> BASE_URL \o start_path]
    /\ UNCHANGED <<prog, fs, used_signatures, count, generated, sessions_data,
                   product_ids, uuids, runs, prior, parser, sent_by_method,
                   method_counts, authenticated_sessions, last_auth_time, now>>

\* one pass of the loop of crawl: the first url of to_visit is fetched
CrawlFetch(result) ==
    /\ prog = "crawler" /\ pc = "run"
    /\ Len(crawl.to_visit) > 0 /\ crawl.idx < crawl.max_pages
    /\ LET url == Head(crawl.to_visit)
           popped == [crawl EXCEPT !.to_visit = Tail(@), !.idx = @ + 1,
                                   !.fetched = Append(@, url)]
           links == crawl.site[url]
       IN  /\ result.after <= Len(links)
           /\ crawl' = CASE result.kind = "ok" ->
                               CollectForms(CollectLinks(popped, links), url)
                         [] result.kind = "raised" ->
                               CollectLinks(popped, SubSeq(links, 1, result.after))
                         [] OTHER -> popped
           /\ last' = [op |-> "fetch", url |-> url, result |-> result.kind]
    /\ UNCHANGED <<prog, pc, fs, used_signatures, count, generated, sessions_data,
                   product_ids, uuids, runs, prior, parser, sent_by_method,
                   method_counts, authenticated_sessions, last_auth_time, now>>

\* while to_visit and idx < max_pages: the loop ends and crawl returns
CrawlReturn ==
    /\ prog = "crawler" /\ pc = "run"
    /\ ~(Len(crawl.to_visit) > 0 /\ crawl.idx < crawl.max_pages)
    /\ pc' = "done"
    /\ last' = [op |-> "return"]
    /\ UNCHANGED <<prog, crawl, fs, used_signatures, count, generated, sessions_data,
                   product_ids, uuids, runs, prior, parser, sent_by_method,
                   method_counts, authenticated_sessions, last_auth_time, now>>

\* a new SiteCrawler, and a site
InitCrawler ==
    /\ prog = "crawler" /\ fs = NoFile
    /\ crawl \in [site : Sites, max_pages : {0}, to_visit : {<<>>}, found_urls : {{}},
                  form_targets : {<<>>}, idx : {0}, fetched : {<<>>}]
    /\ pc = "off" /\ used_signatures = {} /\ count = 0 /\ generated = 0
    /\ sessions_data = <<>> /\ product_ids = <<>> /\ uuids = 0 /\ runs = 0
    /\ prior = NoFile /\ last = NoCall /\ parser = NoParser
    /\ sent_by_method = <<>> /\ method_counts = <<>>
    /\ authenticated_sessions = {} /\ last_auth_time = <<>> /\ now = EpochStart

NextCrawler ==
    \/ \E start_path \in {"", "index.php"}, max_pages \in 1..MaxPages :
           CrawlStart(start_path, max_pages)
    \/ \E result \in FetchResults : CrawlFetch(result)
    \/ CrawlReturn

CrawlStep == (\E result \in FetchResults : CrawlFetch(result)) \/ CrawlReturn

CrawlRunning == prog = "crawler" /\ pc = "run"

\* the interpreter keeps executing the loop: every get ends, with an answer or
\* with an exception (timeout=DEFAULT_TIMEOUT)
CrawlFair == []<>(~CrawlRunning) \/ []<><<CrawlStep>>_vars

SpecCrawler == InitCrawler /\ [][NextCrawler]_vars /\ CrawlFair

\* no url is enqueued twice: the queue holds no url twice and none that was
\* fetched, no url is fetched twice, and the queue is part of found_urls
C34_Bounds ==
    (prog = "crawler" /\ pc \in {"run", "done"}) =>
        /\ Len(crawl.fetched) = crawl.idx /\ crawl.idx <= crawl.max_pages
        /\ \A i, j \in 1..Len(crawl.to_visit) :
               i # j => crawl.to_visit[i] # crawl.to_visit[j]
        /\ \A i, j \in 1..Len(crawl.fetched) :
               i # j => crawl.fetched[i] # crawl.fetched[j]
        /\ Range(crawl.to_visit) \cap Range(crawl.fetched) = {}
        /\ Range(crawl.to_visit) \subseteq crawl.found_urls

\* C34 (DVWA crawler): crawl fetches at most max_pages pages and always
\* terminates; every url is enqueued at most once (the queue never holds a url
\* twice and never one that was already fetched), and every queued url is in
\* found_urls.
C34_CrawlBounded == [](C34_Bounds) /\ (CrawlRunning ~> (pc = "done"))

\* a crawl ended on its page budget with a url left in the queue, after a
\* page linked back to a page that had been fetched
C34_Witness ==
    /\ prog = "crawler" /\ pc = "done"
    /\ crawl.idx = crawl.max_pages /\ crawl.idx = 2
    /\ Len(crawl.to_visit) = 1
    /\ crawl.site[crawl.fetched[2]] = <<PageAbout, PageRoot>>
    /\ crawl.fetched[1] = PageRoot

(***************************************************************************)
(* The Juice Shop signature set and the ledger.                            *)
(***************************************************************************)
\* C35 (Juice Shop): after every return of _make_api_request (with a response,
\* as a duplicate, or after a transport error) used_signatures is the set of
\* the signatures loaded at start united with the signatures of the rows
\* appended in this run: every signature of the ledger is in the set and the
\* set holds no signature without a row.
C35_SetMatchesLedger ==
    (prog = "juice" /\ pc # "off" /\ last.op = "request") =>
        /\ used_signatures = PriorSignatures \cup AppendedSignatures
        /\ used_signatures = Range(SignatureColumn(fs))

\* in a later run on a ledger that held a row, a send failed: the loaded
\* signature is held, the failed request's signature is not
C35_Witness ==
    /\ prog = "juice" /\ pc = "run" /\ last.op = "request" /\ last.outcome = "failed"
    /\ runs = 2 /\ DataRows(prior) = 1 /\ DataRows(fs) = 1
    /\ last.signature \notin used_signatures
    /\ Cardinality(used_signatures) = 1

(***************************************************************************)
(* The DVWA signature set after a pass skipped for a failed login.         *)
(***************************************************************************)
\* the tokens of the rows logged in this run
C36_LoggedTokens == {fs.lines[i][7] : i \in (Len(prior.lines) + 1)..Len(fs.lines)}

\* C36 (DVWA): when a pass on a protected endpoint is discarded because
\* _maybe_refresh_auth returned False, the signature set after the pass is what
\* it was before (the pass's signature is not in it), so the same request can
\* be admitted later, and each signature of the set belongs to a row logged in
\* this run.
C36_SkipLeavesSetUnchanged ==
    (prog = "dvwa" /\ last.op = "iteration" /\ last.outcome = "auth_skip") =>
        /\ last.signature \notin used_signatures
        /\ \A sig \in used_signatures : Hex8(sig) \in C36_LoggedTokens

(***************************************************************************)
(* The early-abort branch of the DVWA request loop.                        *)
(***************************************************************************)
\* C37 (DVWA): in every state of the request loop with sent < count some
\* method has quota left, so the break for no method with quota is never
\* taken, and the loop ends only with sent = count and every method's quota
\* exactly used up.
C37_BreakNeverTaken ==
    (prog = "dvwa" /\ pc \in {"run", "done"}) =>
        /\ generated < count =>
               /\ pc = "run"
               /\ \E m \in Range(HTTP_METHODS) : sent_by_method[m] < method_counts[m]
        /\ last.op = "iteration" => last.outcome # "break"
        /\ pc = "done" =>
               /\ generated = count
               /\ \A m \in Range(HTTP_METHODS) : sent_by_method[m] = method_counts[m]

\* the loop ended after a pass that fell back to a method the endpoint does
\* not list, the endpoint's own methods being exhausted
C37_Witness ==
    /\ prog = "dvwa" /\ pc = "done" /\ count >= 2 /\ generated = count
    /\ last.op = "iteration" /\ last.outcome = "logged"
    /\ last.method \notin Range(last.endpoint_methods)

(***************************************************************************)
(* The query string of a parsed line of any method.                        *)
(***************************************************************************)
\* C38 (nginx parser): for every written line whose path holds a '?', of any
\* HTTP method, that carries no request_body field (or "-"), the written
\* request.path is the (URL-decoded) part before the first '?' and the written
\* request_body is the URL-decoded part after it: nothing of the request
\* target is lost.
C38_QueryKept ==
    (/\ prog = "nginx" /\ last.op = "line" /\ last.wrote
     /\ Find(last.line.path, "?") # 0 /\ ~HasLoggedBody(last.line)) =>
        /\ LastCell("request.path") = Unquote(BeforeFirst(last.line.path, "?"))
        /\ LastCell("request_body") = Unquote(AfterFirst(last.line.path, "?"))

(***************************************************************************)
(* The start-up of the nginx parser.                                       *)
(***************************************************************************)
\* C39 (nginx parser): parse_log_file returns False and writes no output only
\* when the log file does not exist; for an existing log whose first line is
\* blank or matches no known format it still chooses a format (falling back
\* to combined), writes the header and processes every later non-blank line.
C39_FalseOnlyWithoutLog ==
    (prog = "nginx" /\ pc = "done" /\ last.op = "parse_log_file") =>
        /\ ~last.ret => ~parser.exists
        /\ parser.exists =>
               /\ parser.pattern # "None"
               /\ fs.exists /\ fs.lines[1] = NginxCsvHeaders
               /\ parser.line_num = Len(parser.lines)
====
